---- MODULE Spec2Model ----
(***************************************************************************)
(* Authentication / session subsystem of the fruit-inventory backend:      *)
(* the Credential Store (User, RefreshToken, LoginLog tables), the token   *)
(* and password services, the authenticate middleware and the handlers of  *)
(* AuthController (register, login, refreshToken, logout, getProfile).     *)
(*                                                                         *)
(* Every handler is modelled statement by statement: one action per        *)
(* awaited store statement, so that requests interleave exactly where the  *)
(* code can be suspended.  Time is in milliseconds, as Date.now().         *)
(***************************************************************************)
EXTENDS Integers, Sequences, FiniteSets, TLC

VARIABLES
    users,          \* User table: sequence of rows, row i has id i
    refreshTokens,  \* RefreshToken table: sequence of rows in creation order
    loginLog,       \* LoginLog table: sequence of rows in creation order
    now,            \* the wall clock, Date.now(), in milliseconds
    budget,         \* requests and outside changes the run may still see
    req,            \* per connection: the request in flight and its locals
    resp,           \* per connection: the last response sent
    issued          \* access tokens handed to clients so far

vars == <<users, refreshTokens, loginLog, now, budget, req, resp, issued>>

store == <<users, refreshTokens, loginLog>>

----------------------------------------------------------------------------
(* Bounds of the model *)

\* requests that arrive and rows changed outside the handlers in one run,
\* per specification
Events == 2
LoginEvents == 3
SessionEvents == 3
RaceEvents == 3
AuthEvents == 4
RouteEvents == 3
RegisterEvents == 3
FaultEvents == 3
StrengthLen == 3
SignupEvents == 4
RoleEvents == 3
RelockEvents == 2

(* Program constants *)

LOCKOUT_THRESHOLD == 5
LOCKOUT_MS == 30 * 60 * 1000
REFRESH_MS == 7 * 24 * 60 * 60 * 1000
ACCESS_EXPIRE_S == 15 * 60

NULL == -1

Procs == {1, 2}
SeqProcs == {1}

\* the instants at which the run is observed: right after the start, and
\* at and right after the end of a lockout or of a refresh token that began
\* at the start
Instants == {1, LOCKOUT_MS, LOCKOUT_MS + 1, REFRESH_MS, REFRESH_MS + 1}

Emails == {"test@test.com", "test2@test.com", "new@test.com"}
RegisterEmails == {"test@test.com", "new@test.com"}
\* strings the code inspects character by character are sequences of
\* one-character strings
GoodPassword == <<"S", "e", "c", "r", "e", "t", "#", "1">>
OtherPassword == <<"W", "r", "o", "n", "g", "#", "2", "2">>
WeakPassword == <<"a", "d", "m", "i", "n">>
LoginPasswords == {GoodPassword, OtherPassword}
RegisterPasswords == {GoodPassword, WeakPassword}
Usernames == {<<"T", "e", "s", "t">>, <<"N", "e", "w">>}
Salts == {"salt1"}
Roles == {"user", "admin"}
IPs == {"10.0.0.1"}
Agents == {"curl"}

----------------------------------------------------------------------------
(* Password service *)

\* variant: the password is stored as it is
hashPasswordPlain(password, salt) == password

\* bcrypt.hash(password, salt): the hash embeds the salt; it is never the
\* plaintext itself.
hashPassword(password, salt) == <<"$2a$12$", salt, password>>

\* bcrypt.compare(password, hash): re-hashes with the salt found in the hash.
comparePassword(password, hashedPassword) ==
    hashPassword(password, hashedPassword[2]) = hashedPassword

UpperChars ==
    <<"A", "B", "C", "D", "E", "F", "G", "H", "I", "J", "K", "L", "M", "N",
    "O", "P", "Q", "R", "S", "T", "U", "V", "W", "X", "Y", "Z">>
LowerChars ==
    <<"a", "b", "c", "d", "e", "f", "g", "h", "i", "j", "k", "l", "m", "n",
    "o", "p", "q", "r", "s", "t", "u", "v", "w", "x", "y", "z">>
DigitChars == {"0", "1", "2", "3", "4", "5", "6", "7", "8", "9"}
\* the class [!@#$%^&*(),.?":{}|<>]
SpecialChars ==
    {"!", "@", "#", "$", "%", "^", "&", "*", "(", ")", ",", ".", "?", "\"",
    ":", "{", "}", "|", "<", ">"}

ToLowerChar(c) ==
    IF \E i \in 1..Len(UpperChars) : UpperChars[i] = c
    THEN LowerChars[CHOOSE i \in 1..Len(UpperChars) : UpperChars[i] = c]
    ELSE c

\* String.prototype.toLowerCase
toLowerCase(str) == [i \in 1..Len(str) |-> ToLowerChar(str[i])]

\* regex.test(str) for a character class
Matches(class, str) == \E i \in 1..Len(str) : str[i] \in class

Range(f) == {f[i] : i \in DOMAIN f}

commonPasswords == <<
    <<"p", "a", "s", "s", "w", "o", "r", "d">>,
    <<"1", "2", "3", "4", "5", "6">>,
    <<"1", "2", "3", "4", "5", "6", "7", "8", "9">>,
    <<"q", "w", "e", "r", "t", "y">>,
    <<"a", "b", "c", "1", "2", "3">>,
    <<"p", "a", "s", "s", "w", "o", "r", "d", "1", "2", "3">>,
    <<"a", "d", "m", "i", "n">>,
    <<"l", "e", "t", "m", "e", "i", "n">>,
    <<"w", "e", "l", "c", "o", "m", "e">>,
    <<"1", "2", "3", "4", "5", "6", "7", "8">> >>

\* errors.push(message) when the rule is violated
PushIf(errors, violated, message) ==
    IF violated THEN Append(errors, message) ELSE errors

\* variant: the checks stop at the first violated rule
PasswordErrorsFirstOnly(password) ==
    IF Len(password) < 8
    THEN <<"Password must be at least 8 characters long">>
    ELSE IF ~Matches(Range(UpperChars), password)
    THEN <<"Password must contain at least one uppercase letter">>
    ELSE IF ~Matches(Range(LowerChars), password)
    THEN <<"Password must contain at least one lowercase letter">>
    ELSE IF ~Matches(DigitChars, password)
    THEN <<"Password must contain at least one number">>
    ELSE IF ~Matches(SpecialChars, password)
    THEN <<"Password must contain at least one special character">>
    ELSE IF toLowerCase(password) \in Range(commonPasswords)
    THEN <<"Password is too common. Please choose a more secure password">>
    ELSE << >>

\* validatePasswordStrength(password).errors, in the order the checks run
PasswordErrors(password) ==
    LET e1 == PushIf(<< >>, Len(password) < 8,
                     "Password must be at least 8 characters long")
        e2 == PushIf(e1, ~Matches(Range(UpperChars), password),
                     "Password must contain at least one uppercase letter")
        e3 == PushIf(e2, ~Matches(Range(LowerChars), password),
                     "Password must contain at least one lowercase letter")
        e4 == PushIf(e3, ~Matches(DigitChars, password),
                     "Password must contain at least one number")
        e5 == PushIf(e4, ~Matches(SpecialChars, password),
                     "Password must contain at least one special character")
    IN  PushIf(e5, toLowerCase(password) \in Range(commonPasswords),
               "Password is too common. Please choose a more secure password")

validatePasswordStrength(password) ==
    [valid |-> Len(PasswordErrors(password)) = 0,
     errors |-> PasswordErrors(password)]

----------------------------------------------------------------------------
(* Token service *)

NoJwt == [userId |-> 0, username |-> << >>, role |-> "", iat |-> 0, exp |-> 0,
          sig |-> "none"]

\* jwt.sign(payload, accessSecret, {expiresIn: "15m", ...}): iat is the clock
\* in whole seconds, exp = iat + 15 minutes.
generateAccessToken(userId, username, role, t) ==
    [userId |-> userId, username |-> username, role |-> role,
     iat |-> t \div 1000, exp |-> (t \div 1000) + ACCESS_EXPIRE_S,
     sig |-> "accessSecret"]

\* crypto.randomBytes(64).toString("hex"): a value no earlier call returned;
\* the k-th value drawn is written k.
generateRefreshToken(table) == Len(table) + 1

NoCookie == 0
UnknownCookie == 99

\* the cookie values a client can send: none, a value never issued, or the
\* value of any row
Cookies ==
    {NoCookie, UnknownCookie}
    \cup {refreshTokens[i].token : i \in 1..Len(refreshTokens)}

----------------------------------------------------------------------------
(* Credential Store: rows and queries *)

NoUser ==
    [id |-> 0, username |-> << >>, email |-> "", password |-> <<>>,
     role |-> "", isActive |-> FALSE, failedLoginAttempts |-> 0,
     lockoutUntil |-> NULL, passwordChangedAt |-> NULL,
     lastLoginAt |-> NULL, lastLoginIP |-> ""]

\* the column defaults of the User table
UserDefaults ==
    [NoUser EXCEPT !.role = "user", !.isActive = TRUE]

\* prisma.user.create({data: {username, email, password}}): the remaining
\* columns take their defaults; the id is the next one
NewUser(id, username, email, password) ==
    [UserDefaults EXCEPT !.id = id, !.username = username, !.email = email,
                         !.password = password]

\* select: {id, username, email, role, createdAt}: the columns register's
\* create returns; the others are not in the result
SelectPublic(row) ==
    [NoUser EXCEPT !.id = row.id, !.username = row.username,
                   !.email = row.email, !.role = row.role]

UserIds == 1..Len(users)

\* prisma.user.findUnique({where: {email}})
FindUserByEmail(email) ==
    IF \E i \in UserIds : users[i].email = email
    THEN users[CHOOSE i \in UserIds : users[i].email = email]
    ELSE NoUser

\* prisma.user.findUnique({where: {id}})
FindUserById(id) == IF id \in UserIds THEN users[id] ELSE NoUser

NoTokenRow == [token |-> NoCookie, userId |-> 0, expiresAt |-> NULL,
               isRevoked |-> FALSE]

TokenIds == 1..Len(refreshTokens)

LogRow(userId, email, ip, agent, success, reason) ==
    [userId |-> userId, email |-> email, ipAddress |-> ip,
     userAgent |-> agent, success |-> success, reason |-> reason]

----------------------------------------------------------------------------
(* Connections *)

NoAuth == [userId |-> 0, username |-> << >>, role |-> ""]

IdleReq ==
    [pc |-> "idle", email |-> "", username |-> << >>, password |-> << >>,
     hashed |-> << >>, ip |-> "", agent |-> "",
     cookie |-> NoCookie, tokenRecord |-> NoTokenRow, user |-> NoUser,
     authUser |-> NoAuth,
     accessToken |-> NoJwt, refreshToken |-> NoCookie]

\* a response: status, message, the access token in the body (if any), the
\* Set-Cookie effect on refreshToken (NULL: untouched, NoCookie: cleared,
\* otherwise the value set) and the id of the user in the body (0: none)
Response(status, message, accessToken, setCookie, userId) ==
    [status |-> status, message |-> message, accessToken |-> accessToken,
     setCookie |-> setCookie, userId |-> userId]

NoResponse == Response(0, "", NoJwt, NULL, 0)

Reply(p, r) ==
    /\ resp' = [resp EXCEPT ![p] = r]
    /\ req' = [req EXCEPT ![p] = IdleReq]

\* a request arrives
Arrive ==
    /\ budget > 0
    /\ budget' = budget - 1

----------------------------------------------------------------------------
(* The clock *)

Tick(instants) ==
    /\ \E t \in instants : t > now /\ now' = t
    /\ UNCHANGED <<users, refreshTokens, loginLog, budget, req, resp, issued>>

----------------------------------------------------------------------------
(* AuthController.login *)

\* the request as the handler holds it once
\* prisma.user.findUnique({where: {email}}) has returned `user`
LoginRequest(email, password, ip, agent, user) ==
    [IdleReq EXCEPT !.pc = "login_found", !.email = email,
                    !.password = password, !.ip = ip, !.agent = agent,
                    !.user = user]

\* the log row login prepares right after the lookup ("Always log the
\* attempt"): userId is user?.id, success false, reason still empty.  A
\* reason is the sequence of the parts its template literal joins.
logData(r) == LogRow(r.user.id, r.email, r.ip, r.agent, FALSE, << >>)

\* variant: only the reason is set, the flag stays as logData has it
WithReasonOnly(row, success, reason) ==
    [row EXCEPT !.reason = reason]

\* the row with the reason (and the success flag) the branch gives it
WithReason(row, success, reason) ==
    [row EXCEPT !.success = success, !.reason = reason]

\* variant: the lockout still holds at the instant it ends
IsLockedInclusive(user, t) ==
    user.lockoutUntil # NULL /\ user.lockoutUntil >= t

\* user.lockoutUntil && user.lockoutUntil > new Date()
IsLocked(user, t) == user.lockoutUntil # NULL /\ user.lockoutUntil > t

\* variant: the lockout is checked before isActive
LoginBranchLockedFirst(r, t) ==
    IF r.user = NoUser THEN "not_found"
    ELSE IF IsLocked(r.user, t) THEN "locked"
    ELSE IF ~r.user.isActive THEN "deactivated"
    ELSE IF ~comparePassword(r.password, r.user.password) THEN "invalid"
    ELSE "valid"

\* variant: the lockout is not looked at
LoginBranchNoLock(r, t) ==
    IF r.user = NoUser THEN "not_found"
    ELSE IF ~r.user.isActive THEN "deactivated"
    ELSE IF ~comparePassword(r.password, r.user.password) THEN "invalid"
    ELSE "valid"

\* the branch login takes for the row it read, at time t
LoginBranch(r, t) ==
    IF r.user = NoUser THEN "not_found"
    ELSE IF ~r.user.isActive THEN "deactivated"
    ELSE IF IsLocked(r.user, t) THEN "locked"
    ELSE IF ~comparePassword(r.password, r.user.password) THEN "invalid"
    ELSE "valid"

\* variant: the counter starts over when the account is locked
FailedUpdateResetOnLock(user, t) ==
    [failedLoginAttempts |->
         IF user.failedLoginAttempts + 1 >= LOCKOUT_THRESHOLD
         THEN 0 ELSE user.failedLoginAttempts + 1,
     lockoutUntil |-> IF user.failedLoginAttempts + 1 >= LOCKOUT_THRESHOLD
                      THEN t + LOCKOUT_MS
                      ELSE NULL]

\* variant: the lockout is set only by the failure that reaches the threshold
FailedUpdateAtThresholdOnly(user, t) ==
    [failedLoginAttempts |-> user.failedLoginAttempts + 1,
     lockoutUntil |-> IF user.failedLoginAttempts + 1 = LOCKOUT_THRESHOLD
                      THEN t + LOCKOUT_MS
                      ELSE NULL]

\* the data of the update a wrong password makes: both columns are computed
\* from the row as the handler read it
FailedUpdate(user, t) ==
    [failedLoginAttempts |-> user.failedLoginAttempts + 1,
     lockoutUntil |-> IF user.failedLoginAttempts + 1 >= LOCKOUT_THRESHOLD
                      THEN t + LOCKOUT_MS
                      ELSE NULL]

\* variant: the update increments the stored row, not the row as read
UpdateFailedFromStored(table, user, t) ==
    [table EXCEPT
        ![user.id].failedLoginAttempts =
            FailedUpdate(table[user.id], t).failedLoginAttempts,
        ![user.id].lockoutUntil = FailedUpdate(table[user.id], t).lockoutUntil]

\* prisma.user.update({where: {id}, data: {failedLoginAttempts, lockoutUntil}})
UpdateFailed(table, user, t) ==
    [table EXCEPT
        ![user.id].failedLoginAttempts = FailedUpdate(user, t).failedLoginAttempts,
        ![user.id].lockoutUntil = FailedUpdate(user, t).lockoutUntil]

\* the log row of a wrong password; r.user is updatedUser
InvalidPasswordRow(r) ==
    WithReason(logData(r), FALSE,
               <<"Invalid password (attempt ", r.user.failedLoginAttempts, ")">>)

\* the data of the update a correct password makes
SuccessUpdate(t, ip) ==
    [failedLoginAttempts |-> 0, lockoutUntil |-> NULL,
     lastLoginAt |-> t, lastLoginIP |-> ip]

\* variant: the update of a successful login leaves the counter alone
UpdateSucceededKeepCount(table, user, t, ip) ==
    [table EXCEPT
        ![user.id].lockoutUntil = SuccessUpdate(t, ip).lockoutUntil,
        ![user.id].lastLoginAt = SuccessUpdate(t, ip).lastLoginAt,
        ![user.id].lastLoginIP = SuccessUpdate(t, ip).lastLoginIP]

\* variant: the update of a successful login leaves lockoutUntil alone
UpdateSucceededKeepLock(table, user, t, ip) ==
    [table EXCEPT
        ![user.id].failedLoginAttempts = SuccessUpdate(t, ip).failedLoginAttempts,
        ![user.id].lastLoginAt = SuccessUpdate(t, ip).lastLoginAt,
        ![user.id].lastLoginIP = SuccessUpdate(t, ip).lastLoginIP]

\* prisma.user.update({where: {id}, data: {failedLoginAttempts: 0, ...}})
UpdateSucceeded(table, user, t, ip) ==
    [table EXCEPT
        ![user.id].failedLoginAttempts = SuccessUpdate(t, ip).failedLoginAttempts,
        ![user.id].lockoutUntil = SuccessUpdate(t, ip).lockoutUntil,
        ![user.id].lastLoginAt = SuccessUpdate(t, ip).lastLoginAt,
        ![user.id].lastLoginIP = SuccessUpdate(t, ip).lastLoginIP]

\* variant: the row expires at the moment it is created
NewTokenRowNoLifetime(token, userId, t) ==
    [token |-> token, userId |-> userId, expiresAt |-> t,
     isRevoked |-> FALSE]

\* the RefreshToken row login creates
NewTokenRow(token, userId, t) ==
    [token |-> token, userId |-> userId, expiresAt |-> t + REFRESH_MS,
     isRevoked |-> FALSE]

\* POST /auth/login arrives and the handler awaits the lookup
LoginFind(p, email, password, ip, agent) ==
    /\ req[p].pc = "idle"
    /\ Arrive
    /\ req' = [req EXCEPT ![p] =
                 LoginRequest(email, password, ip, agent,
                              FindUserByEmail(email))]
    /\ UNCHANGED <<users, refreshTokens, loginLog, now, resp, issued>>

\* if (!user): log "User not found", 401
LoginNotFound(p) ==
    /\ req[p].pc = "login_found"
    /\ LoginBranch(req[p], now) = "not_found"
    /\ loginLog' = Append(loginLog,
                     WithReason(logData(req[p]), FALSE, <<"User not found">>))
    /\ Reply(p, Response(401, "Invalid email or password", NoJwt, NULL, 0))
    /\ UNCHANGED <<users, refreshTokens, now, budget, issued>>

\* if (!user.isActive): log "Account deactivated", 401
LoginDeactivated(p) ==
    /\ req[p].pc = "login_found"
    /\ LoginBranch(req[p], now) = "deactivated"
    /\ loginLog' = Append(loginLog,
                     WithReason(logData(req[p]), FALSE,
                                <<"Account deactivated">>))
    /\ Reply(p, Response(401, "Account has been deactivated", NoJwt, NULL, 0))
    /\ UNCHANGED <<users, refreshTokens, now, budget, issued>>

\* if locked: log "Account locked", 423
LoginLocked(p) ==
    /\ req[p].pc = "login_found"
    /\ LoginBranch(req[p], now) = "locked"
    /\ loginLog' = Append(loginLog,
                     WithReason(logData(req[p]), FALSE, <<"Account locked">>))
    /\ Reply(p, Response(423,
                 "Account is temporarily locked due to too many failed attempts",
                 NoJwt, NULL, 0))
    /\ UNCHANGED <<users, refreshTokens, now, budget, issued>>

\* await comparePassword(...) is false: the update of the counter;
\* updatedUser is the row the update returns
LoginFailUpdate(p) ==
    /\ req[p].pc = "login_found"
    /\ LoginBranch(req[p], now) = "invalid"
    /\ users' = UpdateFailed(users, req[p].user, now)
    /\ req' = [req EXCEPT ![p].pc = "login_failed",
                          ![p].user = users'[req[p].user.id]]
    /\ UNCHANGED <<refreshTokens, loginLog, now, budget, resp, issued>>

\* variant: the row of the failed attempt replaces the last row of the log
LoginFailLogOverwrite(p) ==
    /\ req[p].pc = "login_failed"
    /\ loginLog' = IF Len(loginLog) = 0
                   THEN <<InvalidPasswordRow(req[p])>>
                   ELSE [loginLog EXCEPT ![Len(loginLog)] =
                                            InvalidPasswordRow(req[p])]
    /\ Reply(p, Response(401, "Invalid email or password", NoJwt, NULL, 0))
    /\ UNCHANGED <<users, refreshTokens, now, budget, issued>>

\* log `Invalid password (attempt ${updatedUser.failedLoginAttempts})`, 401
LoginFailLog(p) ==
    /\ req[p].pc = "login_failed"
    /\ loginLog' = Append(loginLog, InvalidPasswordRow(req[p]))
    /\ Reply(p, Response(401, "Invalid email or password", NoJwt, NULL, 0))
    /\ UNCHANGED <<users, refreshTokens, now, budget, issued>>

\* await comparePassword(...) is true: the update that resets the counter
LoginSuccessUpdate(p) ==
    /\ req[p].pc = "login_found"
    /\ LoginBranch(req[p], now) = "valid"
    /\ users' = UpdateSucceeded(users, req[p].user, now, req[p].ip)
    /\ req' = [req EXCEPT ![p].pc = "login_reset"]
    /\ UNCHANGED <<refreshTokens, loginLog, now, budget, resp, issued>>

\* generateAccessToken (from the row as read), generateRefreshToken,
\* prisma.refreshToken.create(...)
LoginCreateToken(p) ==
    /\ req[p].pc = "login_reset"
    /\ LET u == req[p].user
           at == generateAccessToken(u.id, u.username, u.role, now)
           rt == generateRefreshToken(refreshTokens)
       IN  /\ refreshTokens' = Append(refreshTokens, NewTokenRow(rt, u.id, now))
           /\ req' = [req EXCEPT ![p].pc = "login_token",
                                 ![p].accessToken = at,
                                 ![p].refreshToken = rt]
    /\ UNCHANGED <<users, loginLog, now, budget, resp, issued>>

\* log "Successful login", set the cookie, 200 with the access token
LoginSuccessLog(p) ==
    /\ req[p].pc = "login_token"
    /\ loginLog' = Append(loginLog,
                     WithReason(logData(req[p]), TRUE, <<"Successful login">>))
    /\ issued' = issued \cup {req[p].accessToken}
    /\ Reply(p, Response(200, "Login successful", req[p].accessToken,
                         req[p].refreshToken, req[p].user.id))
    /\ UNCHANGED <<users, refreshTokens, now, budget>>

Login(p, emails, passwords) ==
    \/ \E e \in emails, pw \in passwords, ip \in IPs, a \in Agents :
          LoginFind(p, e, pw, ip, a)
    \/ LoginNotFound(p)
    \/ LoginDeactivated(p)
    \/ LoginLocked(p)
    \/ LoginFailUpdate(p)
    \/ LoginFailLog(p)
    \/ LoginSuccessUpdate(p)
    \/ LoginCreateToken(p)
    \/ LoginSuccessLog(p)

----------------------------------------------------------------------------
(* AuthController.register *)

\* the rows prisma.user.findFirst({where: {OR: [{email}, {username}]}}) may
\* return: the query gives no order, so any matching row can be the first
\* variant: only the email is looked for
ExistingUsersByEmail(email, username) ==
    {i \in UserIds : users[i].email = email}

ExistingUsers(email, username) ==
    {i \in UserIds : users[i].email = email \/ users[i].username = username}

\* variant: the password strength is checked before the existence of a row
RegisterRejectWeakFirst(p, username, email, password) ==
    /\ req[p].pc = "idle"
    /\ Arrive
    /\ LET usernameLowerCase == toLowerCase(username)
           found == ExistingUsers(email, usernameLowerCase)
       IN  \/ /\ ~validatePasswordStrength(password).valid
              /\ Reply(p, Response(400,
                         "Password does not meet security requirements",
                         NoJwt, NULL, 0))
           \/ /\ validatePasswordStrength(password).valid
              /\ \E i \in found :
                   Reply(p, Response(409,
                            IF users[i].email = email
                            THEN "Email already exists"
                            ELSE "Username already exists",
                            NoJwt, NULL, 0))
    /\ UNCHANGED <<users, refreshTokens, loginLog, now, issued>>

\* a registration rejected before anything is written: 409 when a row with
\* the email or the lowercased username exists, else 400 for a weak password
RegisterReject(p, username, email, password) ==
    /\ req[p].pc = "idle"
    /\ Arrive
    /\ LET usernameLowerCase == toLowerCase(username)
           found == ExistingUsers(email, usernameLowerCase)
       IN  \/ \E i \in found :
                Reply(p, Response(409,
                         IF users[i].email = email
                         THEN "Email already exists"
                         ELSE "Username already exists",
                         NoJwt, NULL, 0))
           \/ /\ found = {}
              /\ ~validatePasswordStrength(password).valid
              /\ Reply(p, Response(400,
                         "Password does not meet security requirements",
                         NoJwt, NULL, 0))
    /\ UNCHANGED <<users, refreshTokens, loginLog, now, issued>>

\* a registration that passes both checks goes on to await hashPassword
RegisterAccept(p, username, email, password, ip, agent, salt) ==
    /\ req[p].pc = "idle"
    /\ Arrive
    /\ ExistingUsers(email, toLowerCase(username)) = {}
    /\ validatePasswordStrength(password).valid
    /\ req' = [req EXCEPT ![p] =
                 [IdleReq EXCEPT !.pc = "register_hashed", !.email = email,
                                 !.username = toLowerCase(username),
                                 !.password = password, !.ip = ip,
                                 !.agent = agent,
                                 !.hashed = hashPassword(password, salt)]]
    /\ UNCHANGED <<users, refreshTokens, loginLog, now, resp, issued>>

\* the unique columns of the User table reject a row whose email or
\* username another row has
UniqueViolation(email, username) ==
    \E i \in UserIds : users[i].email = email \/ users[i].username = username

\* variant: the create never throws
RegisterCreateUnchecked(p) ==
    /\ req[p].pc = "register_hashed"
    /\ users' = Append(users,
                  NewUser(Len(users) + 1, req[p].username,
                          req[p].email, req[p].hashed))
    /\ req' = [req EXCEPT ![p].pc = "register_created",
                          ![p].user = SelectPublic(users'[Len(users')])]
    /\ UNCHANGED resp
    /\ UNCHANGED <<refreshTokens, loginLog, now, budget, issued>>

\* prisma.user.create(...): when the create throws, the catch answers 500
RegisterCreate(p) ==
    /\ req[p].pc = "register_hashed"
    /\ IF UniqueViolation(req[p].email, req[p].username)
       THEN /\ Reply(p, Response(500, "Internal server error", NoJwt, NULL, 0))
            /\ UNCHANGED users
       ELSE /\ users' = Append(users,
                          NewUser(Len(users) + 1, req[p].username,
                                  req[p].email, req[p].hashed))
            /\ req' = [req EXCEPT ![p].pc = "register_created",
                                  ![p].user = SelectPublic(users'[Len(users')])]
            /\ UNCHANGED resp
    /\ UNCHANGED <<refreshTokens, loginLog, now, budget, issued>>

\* log "User registration", 201 with the selected columns of the new row
RegisterLog(p) ==
    /\ req[p].pc = "register_created"
    /\ loginLog' = Append(loginLog,
                     LogRow(req[p].user.id, req[p].user.email, req[p].ip,
                            req[p].agent, TRUE, <<"User registration">>))
    /\ Reply(p, Response(201, "User registered successfully", NoJwt, NULL,
                         req[p].user.id))
    /\ UNCHANGED <<users, refreshTokens, now, budget, issued>>

Register(p, usernames, emails, passwords) ==
    \/ \E u \in usernames, e \in emails, pw \in passwords :
          RegisterReject(p, u, e, pw)
    \/ \E u \in usernames, e \in emails, pw \in passwords, ip \in IPs,
          a \in Agents, salt \in Salts :
          RegisterAccept(p, u, e, pw, ip, a, salt)
    \/ RegisterCreate(p)
    \/ RegisterLog(p)

----------------------------------------------------------------------------
(* AuthController.refreshToken *)

\* variant: a revoked row is still found
FindValidTokenRevoked(token, t) ==
    {i \in TokenIds : /\ refreshTokens[i].token = token
                      /\ refreshTokens[i].expiresAt > t}

\* variant: a row is still found at the instant it expires
FindValidTokenInclusive(token, t) ==
    {i \in TokenIds : /\ refreshTokens[i].token = token
                      /\ refreshTokens[i].isRevoked = FALSE
                      /\ refreshTokens[i].expiresAt >= t}

\* prisma.refreshToken.findFirst({where: {token, isRevoked: false,
\*                                        expiresAt: {gt: new Date()}}})
FindValidToken(token, t) ==
    {i \in TokenIds : /\ refreshTokens[i].token = token
                      /\ refreshTokens[i].isRevoked = FALSE
                      /\ refreshTokens[i].expiresAt > t}

\* tokenRecord: the row the query returns (token values are unique), or null
TokenRecord(token, t) ==
    IF FindValidToken(token, t) = {}
    THEN NoTokenRow
    ELSE refreshTokens[CHOOSE i \in FindValidToken(token, t) : TRUE]

\* the request as the handler holds it once the query has returned:
\* without a cookie no query is made; include: {user: true} brings the
\* owner's row as it is when the query runs
RefreshRequest(cookie, t) ==
    LET record == IF cookie = NoCookie THEN NoTokenRow
                  ELSE TokenRecord(cookie, t)
    IN  [IdleReq EXCEPT !.pc = "refresh_found", !.cookie = cookie,
                        !.tokenRecord = record,
                        !.user = FindUserById(record.userId)]

\* POST /auth/refresh-token arrives and the handler awaits the query
RefreshFind(p, cookie) ==
    /\ req[p].pc = "idle"
    /\ Arrive
    /\ req' = [req EXCEPT ![p] = RefreshRequest(cookie, now)]
    /\ UNCHANGED <<users, refreshTokens, loginLog, now, resp, issued>>

\* variant: the new access token carries the role a user starts with
RefreshReplyDefaultRole(r, t) ==
    IF r.cookie = NoCookie
    THEN Response(401, "Refresh token not found", NoJwt, NULL, 0)
    ELSE IF r.tokenRecord = NoTokenRow \/ ~r.user.isActive
    THEN Response(401, "Invalid or expired refresh token", NoJwt, NULL, 0)
    ELSE Response(200, "",
                  generateAccessToken(r.user.id, r.user.username,
                                      UserDefaults.role, t),
                  NULL, 0)

\* the response of refreshToken for what the handler holds, at time t
RefreshReplyOf(r, t) ==
    IF r.cookie = NoCookie
    THEN Response(401, "Refresh token not found", NoJwt, NULL, 0)
    ELSE IF r.tokenRecord = NoTokenRow \/ ~r.user.isActive
    THEN Response(401, "Invalid or expired refresh token", NoJwt, NULL, 0)
    ELSE Response(200, "",
                  generateAccessToken(r.user.id, r.user.username,
                                      r.user.role, t),
                  NULL, 0)

\* the response a refresh with this cookie gets when nothing else happens
\* in between
RefreshResponse(cookie, t) == RefreshReplyOf(RefreshRequest(cookie, t), t)

\* variant: a successful refresh also revokes the row it used
RefreshReplyRotating(p) ==
    /\ req[p].pc = "refresh_found"
    /\ issued' = IF RefreshReplyOf(req[p], now).status = 200
                 THEN issued \cup {RefreshReplyOf(req[p], now).accessToken}
                 ELSE issued
    /\ refreshTokens' =
          IF RefreshReplyOf(req[p], now).status = 200
          THEN [i \in 1..Len(refreshTokens) |->
                  IF refreshTokens[i].token = req[p].cookie
                  THEN [refreshTokens[i] EXCEPT !.isRevoked = TRUE]
                  ELSE refreshTokens[i]]
          ELSE refreshTokens
    /\ Reply(p, RefreshReplyOf(req[p], now))
    /\ UNCHANGED <<users, loginLog, now, budget>>

\* 401, or 200 with a new access token; nothing is written
RefreshReply(p) ==
    /\ req[p].pc = "refresh_found"
    /\ issued' = IF RefreshReplyOf(req[p], now).status = 200
                 THEN issued \cup {RefreshReplyOf(req[p], now).accessToken}
                 ELSE issued
    /\ Reply(p, RefreshReplyOf(req[p], now))
    /\ UNCHANGED <<users, refreshTokens, loginLog, now, budget>>

RefreshToken(p, cookies) ==
    \/ \E c \in cookies : RefreshFind(p, c)
    \/ RefreshReply(p)

----------------------------------------------------------------------------
(* authenticate middleware *)

NoHeader == [scheme |-> "", token |-> NoJwt]

\* JWTService.extractTokenFromHeader
extractTokenFromHeader(authHeader) ==
    IF authHeader = NoHeader \/ authHeader.scheme # "Bearer "
    THEN NoJwt
    ELSE authHeader.token

\* variant: the expiry is not looked at
verifyAccessTokenNoExpiry(token, t) ==
    token.sig = "accessSecret"

\* JWTService.verifyAccessToken: jwt.verify accepts a token signed with the
\* access secret (issuer and audience are part of what is signed) whose exp
\* is later than the clock in whole seconds
verifyAccessToken(token, t) ==
    token.sig = "accessSecret" /\ (t \div 1000) < token.exp

\* variant: the freshness check is left out
AuthResultNoFreshness(authHeader, t) ==
    LET token == extractTokenFromHeader(authHeader)
        user == IF FindUserById(token.userId).isActive
                THEN FindUserById(token.userId) ELSE NoUser
    IN  IF token = NoJwt
        THEN [res |-> Response(401, "Access token required", NoJwt, NULL, 0),
              user |-> NoAuth]
        ELSE IF ~verifyAccessToken(token, t)
        THEN [res |-> Response(401, "Invalid or expired token", NoJwt, NULL, 0),
              user |-> NoAuth]
        ELSE IF user = NoUser
        THEN [res |-> Response(401, "User not found or inactive", NoJwt, NULL, 0),
              user |-> NoAuth]
        ELSE [res |-> NoResponse,
              user |-> [userId |-> user.id, username |-> user.username,
                        role |-> user.role]]

\* variant: a user without an unrevoked refresh token is turned away
AuthResultSessionBound(authHeader, t) ==
    LET token == extractTokenFromHeader(authHeader)
        user == IF FindUserById(token.userId).isActive
                THEN FindUserById(token.userId) ELSE NoUser
    IN  IF token = NoJwt
        THEN [res |-> Response(401, "Access token required", NoJwt, NULL, 0),
              user |-> NoAuth]
        ELSE IF ~verifyAccessToken(token, t)
        THEN [res |-> Response(401, "Invalid or expired token", NoJwt, NULL, 0),
              user |-> NoAuth]
        ELSE IF \/ user = NoUser
                \/ \A i \in 1..Len(refreshTokens) :
                      refreshTokens[i].userId = user.id
                      => refreshTokens[i].isRevoked
        THEN [res |-> Response(401, "User not found or inactive", NoJwt, NULL, 0),
              user |-> NoAuth]
        ELSE IF user.passwordChangedAt # NULL
                /\ token.iat * 1000 < user.passwordChangedAt
        THEN [res |-> Response(401,
                        "Password has been changed. Please login again",
                        NoJwt, NULL, 0),
              user |-> NoAuth]
        ELSE [res |-> NoResponse,
              user |-> [userId |-> user.id, username |-> user.username,
                        role |-> user.role]]

\* variant: the context is taken from the payload of the token
AuthResultFromToken(authHeader, t) ==
    LET token == extractTokenFromHeader(authHeader)
        user == IF FindUserById(token.userId).isActive
                THEN FindUserById(token.userId) ELSE NoUser
    IN  IF token = NoJwt
        THEN [res |-> Response(401, "Access token required", NoJwt, NULL, 0),
              user |-> NoAuth]
        ELSE IF ~verifyAccessToken(token, t)
        THEN [res |-> Response(401, "Invalid or expired token", NoJwt, NULL, 0),
              user |-> NoAuth]
        ELSE IF user = NoUser
        THEN [res |-> Response(401, "User not found or inactive", NoJwt, NULL, 0),
              user |-> NoAuth]
        ELSE IF user.passwordChangedAt # NULL
                /\ token.iat * 1000 < user.passwordChangedAt
        THEN [res |-> Response(401,
                        "Password has been changed. Please login again",
                        NoJwt, NULL, 0),
              user |-> NoAuth]
        ELSE [res |-> NoResponse,
              user |-> [userId |-> token.userId, username |-> token.username,
                        role |-> token.role]]

\* the outcome of authenticate for the header at time t: the response it
\* sends, or status 0 and the user context it attaches
AuthResult(authHeader, t) ==
    LET token == extractTokenFromHeader(authHeader)
        user == IF FindUserById(token.userId).isActive
                THEN FindUserById(token.userId) ELSE NoUser
    IN  IF token = NoJwt
        THEN [res |-> Response(401, "Access token required", NoJwt, NULL, 0),
              user |-> NoAuth]
        ELSE IF ~verifyAccessToken(token, t)
        THEN [res |-> Response(401, "Invalid or expired token", NoJwt, NULL, 0),
              user |-> NoAuth]
        ELSE IF user = NoUser
        THEN [res |-> Response(401, "User not found or inactive", NoJwt, NULL, 0),
              user |-> NoAuth]
        ELSE IF user.passwordChangedAt # NULL
                /\ token.iat * 1000 < user.passwordChangedAt
        THEN [res |-> Response(401,
                        "Password has been changed. Please login again",
                        NoJwt, NULL, 0),
              user |-> NoAuth]
        ELSE [res |-> NoResponse,
              user |-> [userId |-> user.id, username |-> user.username,
                        role |-> user.role]]

\* variant: an accepted request revokes the refresh tokens of its user
AuthenticateRevoking(p, route, authHeader, cookie) ==
    /\ req[p].pc = "idle"
    /\ Arrive
    /\ LET a == AuthResult(authHeader, now)
       IN  IF a.user = NoAuth
           THEN Reply(p, a.res) /\ UNCHANGED refreshTokens
           ELSE /\ req' = [req EXCEPT ![p] =
                             [IdleReq EXCEPT !.pc = route, !.cookie = cookie,
                                             !.authUser = a.user]]
                /\ refreshTokens' =
                      [i \in 1..Len(refreshTokens) |->
                          IF refreshTokens[i].userId = a.user.userId
                          THEN [refreshTokens[i] EXCEPT !.isRevoked = TRUE]
                          ELSE refreshTokens[i]]
                /\ UNCHANGED resp
    /\ UNCHANGED <<users, loginLog, now, issued>>

\* a request to a route behind authenticate ("logout" or "profile"): the
\* middleware answers 401 or attaches req.user and calls next()
Authenticate(p, route, authHeader, cookie) ==
    /\ req[p].pc = "idle"
    /\ Arrive
    /\ LET a == AuthResult(authHeader, now)
       IN  IF a.user = NoAuth
           THEN Reply(p, a.res)
           ELSE /\ req' = [req EXCEPT ![p] =
                             [IdleReq EXCEPT !.pc = route, !.cookie = cookie,
                                             !.authUser = a.user]]
                /\ UNCHANGED resp
    /\ UNCHANGED <<users, refreshTokens, loginLog, now, issued>>

\* the Authorization headers a client can send: none, another scheme, a
\* token it was given, or such a token with a signature of its own
Headers ==
    {NoHeader, [scheme |-> "Basic ", token |-> NoJwt]}
    \cup {[scheme |-> "Bearer ", token |-> j] : j \in issued}
    \cup {[scheme |-> "Bearer ", token |-> [j EXCEPT !.sig = "forged"]] :
             j \in issued}

----------------------------------------------------------------------------
(* authorize middleware *)

\* the allow-lists a route can be mounted with
AllowLists == SUBSET Roles

\* variant: the role is not compared with the allow-list
authorizeAnyRole(roles, user) ==
    IF user = NoAuth
    THEN Response(401, "Authentication required", NoJwt, NULL, 0)
    ELSE NoResponse

\* authorize(roles)(req, res, next): the response it sends, or status 0
\* when it calls next()
authorize(roles, user) ==
    IF user = NoAuth
    THEN Response(401, "Authentication required", NoJwt, NULL, 0)
    ELSE IF user.role \notin roles
    THEN Response(403, "Insufficient permissions", NoJwt, NULL, 0)
    ELSE NoResponse

\* the guard runs on the request connection p holds
Authorize(p, roles) ==
    /\ req[p].pc = "authorize"
    /\ LET r == authorize(roles, req[p].authUser)
       IN  IF r = NoResponse
           THEN /\ req' = [req EXCEPT ![p].pc = "authorized"]
                /\ UNCHANGED resp
           ELSE Reply(p, r)
    /\ UNCHANGED <<users, refreshTokens, loginLog, now, budget, issued>>

----------------------------------------------------------------------------
(* AuthController.logout, AuthController.getProfile *)

\* variant: every row of the caller is revoked
RevokeTokensOfUser(table, token, userId) ==
    [i \in 1..Len(table) |->
        IF table[i].userId = userId
        THEN [table[i] EXCEPT !.isRevoked = TRUE]
        ELSE table[i]]

\* variant: the rows are selected by the token value alone
RevokeTokensByValue(table, token, userId) ==
    [i \in 1..Len(table) |->
        IF table[i].token = token
        THEN [table[i] EXCEPT !.isRevoked = TRUE]
        ELSE table[i]]

\* prisma.refreshToken.updateMany({where: {token, userId}, data: {isRevoked: true}})
RevokeTokens(table, token, userId) ==
    [i \in 1..Len(table) |->
        IF table[i].token = token /\ table[i].userId = userId
        THEN [table[i] EXCEPT !.isRevoked = TRUE]
        ELSE table[i]]

\* if (refreshToken) await prisma.refreshToken.updateMany(...)
LogoutRevoke(p) ==
    /\ req[p].pc = "logout"
    /\ req[p].cookie # NoCookie
    /\ refreshTokens' = RevokeTokens(refreshTokens, req[p].cookie,
                                     req[p].authUser.userId)
    /\ req' = [req EXCEPT ![p].pc = "logout_revoked"]
    /\ UNCHANGED <<users, loginLog, now, budget, resp, issued>>

\* variant: the cookie is cleared only when the update has run
LogoutReplyKeepCookie(p) ==
    /\ \/ req[p].pc = "logout" /\ req[p].cookie = NoCookie
       \/ req[p].pc = "logout_revoked"
    /\ Reply(p, Response(200, "Logged out successfully", NoJwt,
                         IF req[p].pc = "logout" THEN NULL ELSE NoCookie, 0))
    /\ UNCHANGED <<users, refreshTokens, loginLog, now, budget, issued>>

\* res.clearCookie("refreshToken", ...), 200
LogoutReply(p) ==
    /\ \/ req[p].pc = "logout" /\ req[p].cookie = NoCookie
       \/ req[p].pc = "logout_revoked"
    /\ Reply(p, Response(200, "Logged out successfully", NoJwt, NoCookie, 0))
    /\ UNCHANGED <<users, refreshTokens, loginLog, now, budget, issued>>

Logout(p) ==
    \/ LogoutRevoke(p)
    \/ LogoutReply(p)

GetProfile(p) ==
    /\ req[p].pc = "profile"
    /\ LET user == FindUserById(req[p].authUser.userId)
       IN  IF user = NoUser
           THEN Reply(p, Response(404, "User not found", NoJwt, NULL, 0))
           ELSE Reply(p, Response(200, "", NoJwt, NULL, user.id))
    /\ UNCHANGED <<users, refreshTokens, loginLog, now, budget, issued>>

Protected(p, routes, headers) ==
    \/ \E route \in routes, h \in headers, c \in Cookies :
          Authenticate(p, route, h, c)
    \/ Logout(p)
    \/ GetProfile(p)

----------------------------------------------------------------------------
(* Fruit routes: every one of them is mounted behind authenticate.  Their   *)
(* handlers read and write only the fruitsInventory table, which is not     *)
(* part of this model, so what they answer is left open.                    *)

FruitRoutes ==
    {"fruits-inventory", "fruits-name", "add-fruit", "update-fruit",
     "delete-fruit"}

\* the <<status, message>> pairs a fruit handler can answer with
FruitReplies(route) ==
    CASE route = "fruits-inventory" -> {<<200, "">>}
      [] route = "fruits-name" -> {<<200, "">>}
      [] route = "add-fruit" -> {<<200, "Fruit added successfully.">>}
      [] route = "update-fruit" ->
            {<<200, "Fruit updated successfully.">>, <<404, "Fruit not found">>}
      [] route = "delete-fruit" ->
            {<<200, "Fruit deleted successfully">>, <<400, "Invalid ID">>,
             <<404, "Fruit not found">>}

FruitHandler(p) ==
    /\ req[p].pc \in FruitRoutes
    /\ \E r \in FruitReplies(req[p].pc) :
          Reply(p, Response(r[1], r[2], NoJwt, NULL, 0))
    /\ UNCHANGED <<users, refreshTokens, loginLog, now, budget, issued>>

\* variant: the fruit routes are mounted without authenticate
FruitUnguarded(p, routes, headers) ==
    \/ \E route \in routes, h \in headers :
          /\ req[p].pc = "idle"
          /\ Arrive
          /\ req' = [req EXCEPT ![p] = [IdleReq EXCEPT !.pc = route]]
          /\ UNCHANGED <<users, refreshTokens, loginLog, now, resp, issued>>
    \/ FruitHandler(p)

\* fruit routes read no cookie
Fruit(p, routes, headers) ==
    \/ \E route \in routes, h \in headers :
          Authenticate(p, route, h, NoCookie)
    \/ FruitHandler(p)

----------------------------------------------------------------------------
(* A call to the store throws: the catch block of the operation answers *)

InternalError == Response(500, "Internal server error", NoJwt, NULL, 0)

\* register: findFirst, user.create or loginLog.create throws
RegisterFault(p) ==
    /\ \/ req[p].pc = "idle" /\ Arrive
       \/ /\ req[p].pc \in {"register_hashed", "register_created"}
          /\ UNCHANGED budget
    /\ Reply(p, InternalError)
    /\ UNCHANGED <<users, refreshTokens, loginLog, now, issued>>

\* login: findUnique, user.update, refreshToken.create or loginLog.create
\* throws
LoginFault(p) ==
    /\ \/ req[p].pc = "idle" /\ Arrive
       \/ /\ req[p].pc \in {"login_found", "login_failed", "login_reset",
                             "login_token"}
          /\ UNCHANGED budget
    /\ Reply(p, InternalError)
    /\ UNCHANGED <<users, refreshTokens, loginLog, now, issued>>

\* refreshToken: the cookie is there and refreshToken.findFirst throws
RefreshFault(p, cookie) ==
    /\ req[p].pc = "idle"
    /\ Arrive
    /\ cookie # NoCookie
    /\ Reply(p, InternalError)
    /\ UNCHANGED <<users, refreshTokens, loginLog, now, issued>>

\* logout: the cookie is there and refreshToken.updateMany throws
LogoutFault(p) ==
    /\ req[p].pc = "logout"
    /\ req[p].cookie # NoCookie
    /\ Reply(p, InternalError)
    /\ UNCHANGED <<users, refreshTokens, loginLog, now, budget, issued>>

\* getProfile: user.findUnique throws
ProfileFault(p) ==
    /\ req[p].pc = "profile"
    /\ Reply(p, InternalError)
    /\ UNCHANGED <<users, refreshTokens, loginLog, now, budget, issued>>

\* authenticate: the token was extracted and verified and user.findFirst
\* throws; the one catch block of the middleware answers
AuthenticateFault(p, authHeader) ==
    /\ req[p].pc = "idle"
    /\ Arrive
    /\ extractTokenFromHeader(authHeader) # NoJwt
    /\ verifyAccessToken(extractTokenFromHeader(authHeader), now)
    /\ Reply(p, Response(401, "Invalid or expired token", NoJwt, NULL, 0))
    /\ UNCHANGED <<users, refreshTokens, loginLog, now, issued>>

\* a store call of the operation connection p runs throws
StoreFault(p) ==
    \/ RegisterFault(p)
    \/ LoginFault(p)
    \/ \E c \in Cookies : RefreshFault(p, c)
    \/ LogoutFault(p)
    \/ ProfileFault(p)
    \/ \E h \in Headers : AuthenticateFault(p, h)

----------------------------------------------------------------------------
(* Changes made to User rows outside the handlers (administration): the  *)
(* handlers read isActive, role and passwordChangedAt but never set them *)

EditActive ==
    /\ Arrive
    /\ \E id \in UserIds :
          users' = [users EXCEPT ![id].isActive = ~users[id].isActive]
    /\ UNCHANGED <<refreshTokens, loginLog, now, req, resp, issued>>

EditRole ==
    /\ Arrive
    /\ \E id \in UserIds, role \in Roles :
          /\ users[id].role # role
          /\ users' = [users EXCEPT ![id].role = role]
    /\ UNCHANGED <<refreshTokens, loginLog, now, req, resp, issued>>

\* the username a row is renamed to
Renamed == <<"r", "e", "n", "a", "m", "e", "d">>

EditUsername ==
    /\ Arrive
    /\ \E id \in UserIds :
          /\ \A i \in UserIds : users[i].username # Renamed
          /\ users' = [users EXCEPT ![id].username = Renamed]
    /\ UNCHANGED <<refreshTokens, loginLog, now, req, resp, issued>>

EditPassword ==
    /\ Arrive
    /\ \E id \in UserIds, salt \in Salts :
          users' = [users EXCEPT
                       ![id].password = hashPassword(OtherPassword, salt),
                       ![id].passwordChangedAt = now]
    /\ UNCHANGED <<refreshTokens, loginLog, now, req, resp, issued>>

----------------------------------------------------------------------------
(* Initial states *)

SeedPassword == GoodPassword

\* the User table after seedDB: "test" and "test2" share one hash
SeedUsers ==
    << NewUser(1, <<"t", "e", "s", "t">>, "test@test.com",
               hashPassword(SeedPassword, "salt1")),
       NewUser(2, <<"t", "e", "s", "t", "2">>, "test2@test.com",
               hashPassword(SeedPassword, "salt1")) >>

\* the User table and the LoginLog that k logins with a wrong password for
\* "test@test.com", one after the other at time 0, leave behind
RECURSIVE AfterFailedLogins(_)
AfterFailedLogins(k) ==
    IF k = 0
    THEN [users |-> SeedUsers, loginLog |-> << >>]
    ELSE LET s == AfterFailedLogins(k - 1)
             r == LoginRequest("test@test.com", OtherPassword, "10.0.0.1",
                               "curl", s.users[1])
             table == UpdateFailed(s.users, r.user, 0)
         IN  [users |-> table,
              loginLog |-> Append(s.loginLog,
                              InvalidPasswordRow([r EXCEPT !.user = table[1]]))]

\* the server starts on the seeded database, or on what earlier failed
\* logins made of it
InitAfter(failures, events) ==
    /\ \E k \in failures :
          /\ users = AfterFailedLogins(k).users
          /\ loginLog = AfterFailedLogins(k).loginLog
    /\ refreshTokens = << >>
    /\ now = 0
    /\ budget = events
    /\ req = [p \in Procs |-> IdleReq]
    /\ resp = [p \in Procs |-> NoResponse]
    /\ issued = {}

PriorFailures == {0, LOCKOUT_THRESHOLD - 1, LOCKOUT_THRESHOLD}

----------------------------------------------------------------------------
(* The server: requests on two connections interleave statement by          *)
(* statement                                                                *)

Quiet == \A p \in Procs : req[p].pc = "idle"

\* the Authorization headers of a well-behaved client
ClientHeaders ==
    {NoHeader} \cup {[scheme |-> "Bearer ", token |-> j] : j \in issued}

Next ==
    \/ \E p \in Procs : Register(p, {<<"N", "e", "w">>}, RegisterEmails,
                                 {GoodPassword})
    \/ \E p \in Procs : Login(p, {"test@test.com", "new@test.com"},
                              LoginPasswords)
    \/ \E p \in Procs : RefreshToken(p, Cookies)
    \/ \E p \in Procs : Protected(p, {"logout", "profile"}, ClientHeaders)
    \/ EditActive
    \/ Tick({1, LOCKOUT_MS})

Spec == InitAfter(PriorFailures, Events) /\ [][Next]_vars

(* Logins only, one at a time: every email and password, on the seeded     *)
(* database or after earlier failures, with accounts being deactivated.    *)
(* Neither the clock nor the administrator acts while a request is in      *)
(* flight.                                                                 *)

NextLogin ==
    \/ \E p \in SeqProcs : Login(p, Emails, LoginPasswords)
    \/ Quiet /\ EditActive
    \/ Quiet /\ Tick(Instants)

SpecLogin == InitAfter(PriorFailures, LoginEvents) /\ [][NextLogin]_vars

(* Sessions, one request at a time: logins, then refresh, logout and       *)
(* profile requests with any header and cookie                             *)

NextSession ==
    \/ \E p \in SeqProcs : Login(p, Emails, LoginPasswords)
    \/ \E p \in SeqProcs : RefreshToken(p, Cookies)
    \/ \E p \in SeqProcs : Protected(p, {"logout", "profile"}, Headers)
    \/ Quiet /\ EditActive
    \/ Quiet /\ EditRole
    \/ Quiet /\ EditUsername
    \/ Quiet /\ Tick({REFRESH_MS, REFRESH_MS + 1})

SpecSession ==
    InitAfter({0, LOCKOUT_THRESHOLD}, SessionEvents) /\ [][NextSession]_vars

(* Logins, refreshes, logouts and profile reads on two connections,        *)
(* interleaved, on the seeded database or after four failures              *)

NextRace ==
    \/ \E p \in Procs : Login(p, {"test@test.com", "new@test.com"},
                              LoginPasswords)
    \/ \E p \in Procs : RefreshToken(p, Cookies)
    \/ \E p \in Procs : Protected(p, {"logout", "profile"}, ClientHeaders)
    \/ EditActive
    \/ Tick({LOCKOUT_MS})

SpecRace ==
    InitAfter({0, LOCKOUT_THRESHOLD - 1}, RaceEvents) /\ [][NextRace]_vars

(* authenticate followed by authorize(roles), one request at a time, while *)
(* roles and usernames are changed and accounts deactivated                *)

\* a request passes authenticate and is handed to the guard, which answers
\* or lets it through
GuardedRequest(p, headers, lists) ==
    \/ \E h \in headers : Authenticate(p, "authorize", h, NoCookie)
    \/ \E roles \in lists : Authorize(p, roles)

NextRole ==
    \/ \E p \in SeqProcs : Login(p, {"test@test.com", "new@test.com"},
                                 LoginPasswords)
    \/ \E p \in SeqProcs : GuardedRequest(p, Headers, AllowLists)
    \/ Quiet /\ EditRole
    \/ Quiet /\ EditUsername
    \/ Quiet /\ EditActive

SpecRole ==
    InitAfter({0, LOCKOUT_THRESHOLD}, RoleEvents) /\ [][NextRole]_vars

(* Logins on two connections at once, on an account that has three or *)
(* five failed logins behind it                                        *)

NextRelock ==
    \/ \E p \in Procs : Login(p, {"test@test.com", "new@test.com"},
                              LoginPasswords)
    \/ EditActive
    \/ Tick({LOCKOUT_MS})

SpecRelock ==
    InitAfter({LOCKOUT_THRESHOLD - 2, LOCKOUT_THRESHOLD}, RelockEvents)
    /\ [][NextRelock]_vars

(* Registrations and logins one at a time, while accounts are deactivated *)
(* and lockouts run out                                                   *)

NextSignup ==
    \/ \E p \in SeqProcs : Register(p, {<<"N", "e", "w">>}, RegisterEmails,
                                    {GoodPassword, OtherPassword, WeakPassword})
    \/ \E p \in SeqProcs : Login(p, {"test@test.com", "new@test.com"},
                                 LoginPasswords)
    \/ Quiet /\ EditActive
    \/ Quiet /\ Tick({LOCKOUT_MS})

SpecSignup ==
    InitAfter({0, LOCKOUT_THRESHOLD}, SignupEvents) /\ [][NextSignup]_vars

(* validatePasswordStrength on its own: a caller holds a password and      *)
(* receives {valid, errors}                                                *)

\* one character of each class the rules look for
StrengthChars == {"A", "b", "1", "!"}

\* a run of characters that are in none of the classes
Filler == <<"_", "_", "_", "_", "_">>

\* the passwords checked: up to StrengthLen characters of the classes, alone
\* or followed by the filler, the passwords the requests use, and the
\* common passwords in some spellings
StrengthInputs ==
    LET short == UNION {[1..n -> StrengthChars] : n \in 0..StrengthLen}
    IN  short \cup {w \o Filler : w \in short}
        \cup Range(commonPasswords)
        \cup {GoodPassword, OtherPassword, WeakPassword}
        \cup {<<"A", "d", "m", "i", "n">>,
              <<"P", "a", "s", "s", "w", "o", "r", "d", "1", "2", "3">>,
              <<"Q", "W", "E", "R", "T", "Y">>}

InitStrength ==
    /\ users = SeedUsers
    /\ loginLog = << >>
    /\ refreshTokens = << >>
    /\ now = 0
    /\ budget = 0
    /\ \E pw \in StrengthInputs :
          req = [p \in Procs |->
                   IF p = 1
                   THEN [IdleReq EXCEPT !.pc = "strength", !.password = pw]
                   ELSE IdleReq]
    /\ resp = [p \in Procs |-> NoResponse]
    /\ issued = {}

\* the caller receives the value validatePasswordStrength returns
CheckStrength(p) ==
    /\ req[p].pc = "strength"
    /\ req' = [req EXCEPT ![p].pc = "strength_done"]
    /\ resp' = [resp EXCEPT ![p] = validatePasswordStrength(req[p].password)]
    /\ UNCHANGED <<users, refreshTokens, loginLog, now, budget, issued>>

NextStrength == \E p \in SeqProcs : CheckStrength(p)

SpecStrength == InitStrength /\ [][NextStrength]_vars

(* Requests one at a time on a store whose calls can throw                *)

NextFault ==
    \/ \E p \in SeqProcs : Register(p, {<<"N", "e", "w">>}, RegisterEmails,
                                    {GoodPassword})
    \/ \E p \in SeqProcs : Login(p, {"test@test.com", "new@test.com"},
                                 LoginPasswords)
    \/ \E p \in SeqProcs : RefreshToken(p, Cookies)
    \/ \E p \in SeqProcs : Protected(p, {"logout", "profile"}, ClientHeaders)
    \/ \E p \in SeqProcs : StoreFault(p)
    \/ Quiet /\ EditActive

SpecFault ==
    InitAfter({0, LOCKOUT_THRESHOLD}, FaultEvents) /\ [][NextFault]_vars

(* Registrations on two connections, interleaving between the existence   *)
(* check and the create                                                    *)

\* usernames and emails of the registrations: taken ones, free ones, and
\* free ones that collide with each other
RaceUsernames == Usernames \cup {<<"n", "e", "w">>}
RaceEmails == RegisterEmails \cup {"test2@test.com", "new2@test.com"}

NextRegister ==
    \E p \in Procs : Register(p, RaceUsernames, RaceEmails, RegisterPasswords)

SpecRegister == InitAfter({0}, RegisterEvents) /\ [][NextRegister]_vars

(* Every route of the two routers, one request at a time, while accounts  *)
(* are deactivated                                                        *)

NextRoutes ==
    \/ \E p \in SeqProcs : Register(p, {<<"N", "e", "w">>}, RegisterEmails,
                                    {GoodPassword})
    \/ \E p \in SeqProcs : Login(p, {"test@test.com", "new@test.com"},
                                 LoginPasswords)
    \/ \E p \in SeqProcs : RefreshToken(p, Cookies)
    \/ \E p \in SeqProcs : Protected(p, {"logout", "profile"}, Headers)
    \/ \E p \in SeqProcs : Fruit(p, FruitRoutes, Headers)
    \/ Quiet /\ EditActive

SpecRoutes ==
    InitAfter({0, LOCKOUT_THRESHOLD}, RouteEvents) /\ [][NextRoutes]_vars

(* The role guard on its own: each connection holds a request with some   *)
(* user context, over any state of the tables                             *)

\* the user contexts a request can carry when the guard runs: none, or the
\* {userId, username, role} authenticate attached
Contexts ==
    {NoAuth} \cup {[userId |-> SeedUsers[i].id,
                    username |-> SeedUsers[i].username,
                    role |-> role] : i \in 1..Len(SeedUsers), role \in Roles}

InitGuard ==
    /\ \E k \in {0, LOCKOUT_THRESHOLD} :
          /\ users = AfterFailedLogins(k).users
          /\ loginLog = AfterFailedLogins(k).loginLog
    /\ refreshTokens = << >>
    /\ now = 0
    /\ budget = 0
    /\ req \in [Procs -> {[IdleReq EXCEPT !.pc = "authorize", !.authUser = c] :
                             c \in Contexts}]
    /\ resp = [p \in Procs |-> NoResponse]
    /\ issued = {}

NextGuard == \E p \in Procs, roles \in AllowLists : Authorize(p, roles)

SpecGuard == InitGuard /\ [][NextGuard]_vars

(* Requests behind authenticate, one at a time: logins, then logout,       *)
(* profile and fruit requests with any header, while passwords are changed *)
(* and accounts deactivated, up to the expiry of an access token           *)

AuthInstants == {1, 1000, ACCESS_EXPIRE_S * 1000}

NextAuth ==
    \/ \E p \in SeqProcs : Login(p, {"test@test.com", "new@test.com"},
                                 LoginPasswords)
    \/ \E p \in SeqProcs : Protected(p, {"logout", "profile"}, Headers)
    \/ Quiet /\ EditActive
    \/ Quiet /\ EditPassword
    \/ Quiet /\ Tick(AuthInstants)

SpecAuth ==
    InitAfter({0, LOCKOUT_THRESHOLD}, AuthEvents) /\ [][NextAuth]_vars

----------------------------------------------------------------------------
(* Properties *)

\* the rows of the log that belong to user id, in order
RowsOf(log, id) == SelectSeq(log, LAMBDA row : row.userId = id)

InvalidPassword(n) == <<"Invalid password (attempt ", n, ")">>

\* C1: after 5 consecutive failed logins a login with the correct password
\* is answered 423 (and changes neither the User nor the RefreshToken table)
\* as long as lockoutUntil is later than the current time; once the time has
\* reached lockoutUntil it passes the check, resets failedLoginAttempts to 0
\* and is answered 200.  The failure that makes the count 5 or more sets
\* lockoutUntil to 30 minutes after it.
C1_LockedUntilElapsed ==
    [][\A p \in SeqProcs :
        LET r == req[p]
            id == r.user.id
        IN  /\ (/\ r.pc = "login_found"
                /\ r.user # NoUser
                /\ users[id].isActive
                /\ users[id].failedLoginAttempts >= LOCKOUT_THRESHOLD
                /\ comparePassword(r.password, users[id].password))
               => IF users[id].lockoutUntil > now
                  THEN /\ req'[p].pc = "idle"
                       /\ resp'[p].status = 423
                       /\ users' = users
                       /\ refreshTokens' = refreshTokens
                  ELSE /\ req'[p].pc = "login_reset"
                       /\ users'[id].failedLoginAttempts = 0
            /\ (r.pc = "login_found" /\ req'[p].pc = "login_failed"
                /\ users'[id].failedLoginAttempts >= LOCKOUT_THRESHOLD)
               => users'[id].lockoutUntil = now + LOCKOUT_MS
            /\ r.pc = "login_reset" => req'[p].pc = "login_token"
            /\ r.pc = "login_token"
               => /\ req'[p].pc = "idle"
                  /\ resp'[p].status = 200
                  /\ resp'[p].accessToken # NoJwt
                  /\ users'[id].failedLoginAttempts = 0
    ]_vars

\* the fifth failure, then a locked attempt, then a success once the
\* lockout has elapsed
C1_Witness ==
    /\ resp[1].status = 200
    /\ users[1].failedLoginAttempts = 0
    /\ now >= LOCKOUT_MS
    /\ \E i, j, k \in 1..Len(loginLog) :
          /\ i < j /\ j < k
          /\ loginLog[i].userId = 1
          /\ loginLog[i].reason = InvalidPassword(LOCKOUT_THRESHOLD)
          /\ loginLog[j].userId = 1
          /\ loginLog[j].reason = <<"Account locked">>
          /\ loginLog[k].userId = 1
          /\ loginLog[k].reason = <<"Successful login">>

\* the login that has just been logged for user id is the first wrong
\* password since that user's last successful login
FirstFailureSinceSuccess(log, id) ==
    LET rows == RowsOf(log, id)
        n == Len(rows)
    IN  /\ n >= 2
        /\ rows[n].reason[1] = "Invalid password (attempt "
        /\ \E i \in 1..(n - 1) :
              /\ rows[i].reason = <<"Successful login">>
              /\ \A j \in (i + 1)..(n - 1) :
                    rows[j].reason[1] # "Invalid password (attempt "

\* C2: every successful login leaves the user with failedLoginAttempts = 0
\* and lockoutUntil = null, and with requests handled one at a time the
\* first wrong password after a successful login is logged as attempt 1 and
\* leaves failedLoginAttempts = 1.
C2_SuccessResets ==
    /\ [][\A p \in SeqProcs :
            (req[p].pc = "login_found" /\ req'[p].pc = "login_reset")
            => /\ users'[req[p].user.id].failedLoginAttempts = 0
               /\ users'[req[p].user.id].lockoutUntil = NULL]_vars
    /\ [](\A p \in SeqProcs :
            req[p].pc \in {"login_reset", "login_token"}
            => /\ users[req[p].user.id].failedLoginAttempts = 0
               /\ users[req[p].user.id].lockoutUntil = NULL)
    /\ [](\A id \in UserIds :
            (Quiet /\ FirstFailureSinceSuccess(loginLog, id))
            => /\ RowsOf(loginLog, id)[Len(RowsOf(loginLog, id))].reason
                     = InvalidPassword(1)
               /\ users[id].failedLoginAttempts = 1)

\* a success on an account that had 4 or 5 failures, followed by a failure
C2_Witness ==
    /\ Quiet
    /\ FirstFailureSinceSuccess(loginLog, 1)
    /\ \E i \in 1..Len(loginLog) :
          /\ loginLog[i].userId = 1
          /\ loginLog[i].reason = InvalidPassword(LOCKOUT_THRESHOLD - 1)

\* C3: in every reachable state, however the requests interleave, a user
\* whose lockoutUntil is set has failedLoginAttempts >= 5.
C3_LockedImpliesThreshold ==
    \A id \in UserIds :
        users[id].lockoutUntil # NULL
        => users[id].failedLoginAttempts >= LOCKOUT_THRESHOLD

\* a lockout set by two logins that ran at the same time: both read a count
\* of 4 and both logged attempt 5
C3_Witness ==
    /\ users[1].lockoutUntil # NULL
    /\ users[1].failedLoginAttempts = LOCKOUT_THRESHOLD
    /\ \E i, j \in 1..Len(loginLog) :
          /\ i < j
          /\ loginLog[i].reason = InvalidPassword(LOCKOUT_THRESHOLD)
          /\ loginLog[j].reason = InvalidPassword(LOCKOUT_THRESHOLD)

\* C4 as stated: failedLoginAttempts never decreases except by the update of
\* a successful login, which sets it to 0.
C4_NeverDecreases ==
    [][\A id \in UserIds :
        users'[id].failedLoginAttempts < users[id].failedLoginAttempts
        => /\ users'[id].failedLoginAttempts = 0
           /\ \E p \in Procs : /\ req[p].pc = "login_found"
                               /\ req[p].user.id = id
                               /\ req'[p].pc = "login_reset"
    ]_vars

\* C4, amended: failedLoginAttempts is changed only by the two updates of
\* login.  The update of a successful login sets it to 0; the update of a
\* wrong password sets it to the count that request read plus 1, which is
\* never 0 and is one more than the stored count unless another login wrote
\* the row in between (then it may be lower than the stored count).  No
\* other step (locked or deactivated attempt, refresh, logout, profile read,
\* the clock) changes it.
C4_ChangedOnlyByLoginUpdates ==
    [][\A id \in UserIds :
        users'[id].failedLoginAttempts # users[id].failedLoginAttempts
        => \E p \in Procs :
              /\ req[p].pc = "login_found"
              /\ req[p].user.id = id
              /\ \/ /\ req'[p].pc = "login_reset"
                    /\ users'[id].failedLoginAttempts = 0
                 \/ /\ req'[p].pc = "login_failed"
                    /\ users'[id].failedLoginAttempts
                          = req[p].user.failedLoginAttempts + 1
                    /\ users'[id].failedLoginAttempts > 0
                    /\ (req[p].user.failedLoginAttempts
                           = users[id].failedLoginAttempts
                        => users'[id].failedLoginAttempts
                              = users[id].failedLoginAttempts + 1)
    ]_vars

\* a wrong password, logged as attempt 1 after attempts 1 and 2 of another
\* connection, has lowered the counter from 2 to 1
C4_Witness ==
    /\ users[1].failedLoginAttempts = 1
    /\ \E i, j, k \in 1..Len(loginLog) :
          /\ i < j /\ j < k
          /\ loginLog[i].reason = InvalidPassword(1)
          /\ loginLog[j].reason = InvalidPassword(2)
          /\ loginLog[k].reason = InvalidPassword(1)
          /\ loginLog[k].userId = 1

\* C5: login takes its branches in the order not found, deactivated,
\* locked, password.  A deactivated user is answered "Account has been
\* deactivated" also when locked, and an attempt answered deactivated or
\* locked leaves the User and RefreshToken tables as they were, whether the
\* password is right or wrong.
C5_BranchOrder ==
    [][\A p \in SeqProcs :
        req[p].pc = "login_found"
        => LET u == req[p].user
               locked == u.lockoutUntil # NULL /\ u.lockoutUntil > now
           IN  /\ u = NoUser
                  => /\ req'[p].pc = "idle"
                     /\ resp'[p].status = 401
                     /\ resp'[p].message = "Invalid email or password"
               /\ (u # NoUser /\ ~u.isActive)
                  => /\ req'[p].pc = "idle"
                     /\ resp'[p].status = 401
                     /\ resp'[p].message = "Account has been deactivated"
                     /\ users' = users
                     /\ refreshTokens' = refreshTokens
               /\ (u # NoUser /\ u.isActive /\ locked)
                  => /\ req'[p].pc = "idle"
                     /\ resp'[p].status = 423
                     /\ users' = users
                     /\ refreshTokens' = refreshTokens
               /\ (u # NoUser /\ u.isActive /\ ~locked)
                  => req'[p].pc = IF comparePassword(req[p].password, u.password)
                                  THEN "login_reset" ELSE "login_failed"
    ]_vars

\* a user who is locked and deactivated has been answered "Account has been
\* deactivated"; the lockout and the count are as they were
C5_Witness ==
    /\ Quiet
    /\ resp[1].message = "Account has been deactivated"
    /\ loginLog[Len(loginLog)].reason = <<"Account deactivated">>
    /\ loginLog[Len(loginLog)].userId = 1
    /\ ~users[1].isActive
    /\ users[1].lockoutUntil # NULL
    /\ users[1].lockoutUntil > now
    /\ users[1].failedLoginAttempts = LOCKOUT_THRESHOLD
    /\ users[1].lastLoginAt = NULL
    /\ refreshTokens = << >>

\* the reason and the flag the log row of a login answered with `r` has
\* when the email of the attempt belongs to user `u` (NoUser: to nobody)
ReasonFits(row, r, u) ==
    /\ row.success = (r.status = 200)
    /\ r.status = 200 => row.reason = <<"Successful login">>
    /\ r.status = 423 => row.reason = <<"Account locked">>
    /\ (r.status = 401 /\ r.message = "Account has been deactivated")
       => row.reason = <<"Account deactivated">>
    /\ (r.status = 401 /\ r.message = "Invalid email or password")
       => IF u = NoUser
          THEN row.reason = <<"User not found">>
          ELSE row.reason = InvalidPassword(u.failedLoginAttempts)
    /\ r.status \in {200, 401, 423}

\* C6: a login attempt appends exactly one LoginLog row, with the step that
\* sends its response: the row's success flag is true iff the response is
\* the 200, its reason names the branch taken, and it carries the user id
\* iff a user with that email exists (no id otherwise); the steps before
\* the response append nothing, and no row already there is changed.
C6_OneRowPerAttempt ==
    [][\A p \in SeqProcs :
        req[p].pc \in {"login_found", "login_failed", "login_reset",
                       "login_token"}
        => IF req'[p].pc = "idle"
           THEN /\ Len(loginLog') = Len(loginLog) + 1
                /\ SubSeq(loginLog', 1, Len(loginLog)) = loginLog
                /\ LET row == loginLog'[Len(loginLog')]
                       u == FindUserByEmail(req[p].email)
                   IN  /\ row.email = req[p].email
                       /\ row.userId = u.id
                       /\ (row.userId # 0) = (u # NoUser)
                       /\ ReasonFits(row, resp'[p], u)
           ELSE loginLog' = loginLog
    ]_vars

\* an unknown email, a locked attempt and, once the lockout is over, a
\* success have each been logged
C6_Witness ==
    /\ Quiet
    /\ resp[1].status = 200
    /\ \E i, j, k \in 1..Len(loginLog) :
          /\ i < j /\ j < k /\ k = Len(loginLog)
          /\ loginLog[i].reason = <<"User not found">>
          /\ loginLog[i].userId = 0
          /\ ~loginLog[i].success
          /\ loginLog[j].reason = <<"Account locked">>
          /\ loginLog[j].userId = 1
          /\ ~loginLog[j].success
          /\ loginLog[k].reason = <<"Successful login">>
          /\ loginLog[k].userId = 1
          /\ loginLog[k].success

\* a row of the RefreshToken table that makes the cookie value c good at
\* time t: same token, not revoked, expiring strictly later, owner active
GoodRow(i, c, t) ==
    /\ refreshTokens[i].token = c
    /\ ~refreshTokens[i].isRevoked
    /\ refreshTokens[i].expiresAt > t
    /\ users[refreshTokens[i].userId].isActive

\* the step of connection p that answers a refresh
RefreshAnswered(p) == req[p].pc = "refresh_found" /\ req'[p].pc = "idle"

\* C7: a refresh is answered 200 with a new access token iff a RefreshToken
\* row has the cookie's value, is not revoked, expires strictly later than
\* now and belongs to an active user; without a cookie the answer is 401
\* "Refresh token not found", in every other case 401 "Invalid or expired
\* refresh token".
C7_RefreshIffValid ==
    [][\A p \in SeqProcs :
        RefreshAnswered(p)
        => LET c == req[p].cookie
               good == \E i \in TokenIds : GoodRow(i, c, now)
           IN  /\ (resp'[p].status = 200 /\ resp'[p].accessToken # NoJwt)
                  <=> good
               /\ c = NoCookie
                  => /\ resp'[p].status = 401
                     /\ resp'[p].message = "Refresh token not found"
               /\ (c # NoCookie /\ ~good)
                  => /\ resp'[p].status = 401
                     /\ resp'[p].message = "Invalid or expired refresh token"
                     /\ resp'[p].accessToken = NoJwt
    ]_vars

\* a refresh has been rejected as invalid at the very instant its token
\* expires: the row is there, unrevoked, its owner active
C7_Witness ==
    /\ Quiet
    /\ resp[1].status = 401
    /\ resp[1].message = "Invalid or expired refresh token"
    /\ Len(refreshTokens) = 1
    /\ ~refreshTokens[1].isRevoked
    /\ refreshTokens[1].expiresAt = now
    /\ users[refreshTokens[1].userId].isActive

\* C8: the access token of a successful refresh carries the id, the
\* username and the role of the token's owner as the User row has them at
\* the refresh, whatever they were at login.
C8_RefreshCarriesCurrent ==
    [][\A p \in SeqProcs :
        (RefreshAnswered(p) /\ resp'[p].status = 200)
        => \E i \in TokenIds :
              /\ refreshTokens[i].token = req[p].cookie
              /\ resp'[p].accessToken.userId = refreshTokens[i].userId
              /\ resp'[p].accessToken.username
                    = users[refreshTokens[i].userId].username
              /\ resp'[p].accessToken.role
                    = users[refreshTokens[i].userId].role
    ]_vars

\* the response of a successful refresh
IsRefreshed(r) == r.status = 200 /\ r.message = "" /\ r.accessToken # NoJwt

\* a refresh has returned a token with the owner's new role, after the
\* login had returned one with the old role
C8_Witness ==
    /\ Quiet
    /\ IsRefreshed(resp[1])
    /\ resp[1].accessToken.role = users[resp[1].accessToken.userId].role
    /\ \E j \in issued :
          /\ j.userId = resp[1].accessToken.userId
          /\ j.role # resp[1].accessToken.role
          /\ j.username = resp[1].accessToken.username

\* C9: refresh writes nothing: neither of its steps changes a User row, a
\* RefreshToken row or the LoginLog, whether it is answered 200 or 401;
\* hence right after a successful refresh the same cookie is still good.
C9_RefreshWritesNothing ==
    [][\A p \in SeqProcs :
        /\ (req[p].pc = "idle" /\ req'[p].pc = "refresh_found")
           => store' = store
        /\ RefreshAnswered(p)
           => /\ store' = store
              /\ resp'[p].status = 200
                 => \E i \in 1..Len(refreshTokens') :
                       /\ refreshTokens'[i].token = req[p].cookie
                       /\ ~refreshTokens'[i].isRevoked
                       /\ refreshTokens'[i].expiresAt > now'
                       /\ users'[refreshTokens'[i].userId].isActive
    ]_vars

\* after one login, two more requests that wrote nothing, the last of them
\* a successful refresh whose cookie is still good
C9_Witness ==
    /\ Quiet
    /\ budget = 0
    /\ IsRefreshed(resp[1])
    /\ Len(refreshTokens) = 1
    /\ Len(RowsOf(loginLog, refreshTokens[1].userId)) = 1
    /\ RefreshResponse(refreshTokens[1].token, now).status = 200

\* C10: logout revokes a RefreshToken row only if its token is the cookie's
\* value and its userId is the caller's, and it revokes every such row; it
\* changes nothing else.  A logout with another user's token leaves that
\* row as it was, so a refresh with it is answered as before.
C10_LogoutOwnTokenOnly ==
    [][\A p \in SeqProcs :
        req[p].pc = "logout"
        => /\ Len(refreshTokens') = Len(refreshTokens)
           /\ users' = users
           /\ loginLog' = loginLog
           /\ \A i \in TokenIds :
                 IF /\ refreshTokens[i].token = req[p].cookie
                    /\ refreshTokens[i].userId = req[p].authUser.userId
                 THEN refreshTokens'[i] =
                         [refreshTokens[i] EXCEPT !.isRevoked = TRUE]
                 ELSE refreshTokens'[i] = refreshTokens[i]
    ]_vars

\* user 1 has logged out presenting the token of user 2: the update has run
\* and the row is not revoked; a refresh with it is answered 200
C10_Witness ==
    /\ req[1].pc = "logout_revoked"
    /\ req[1].authUser.userId = 1
    /\ \E i \in TokenIds :
          /\ refreshTokens[i].token = req[1].cookie
          /\ refreshTokens[i].userId = 2
          /\ ~refreshTokens[i].isRevoked
    /\ RefreshResponse(req[1].cookie, now).status = 200

\* C11: a RefreshToken row is changed by nothing but a logout update that
\* takes isRevoked from false to true (rows are only ever added, at the
\* end, by login), so a revoked row stays revoked; and a refresh that
\* presents the value of a revoked row finds no row and is answered 401
\* "Invalid or expired refresh token", however the requests interleave.
C11_RevokedStaysRevoked ==
    [][/\ Len(refreshTokens') >= Len(refreshTokens)
       /\ \A i \in TokenIds :
             /\ refreshTokens[i].isRevoked => refreshTokens'[i].isRevoked
             /\ refreshTokens'[i] # refreshTokens[i]
                => /\ refreshTokens'[i]
                         = [refreshTokens[i] EXCEPT !.isRevoked = TRUE]
                   /\ \E p \in Procs :
                         /\ req[p].pc = "logout"
                         /\ req'[p].pc = "logout_revoked"
                         /\ req[p].cookie = refreshTokens[i].token
                         /\ req[p].authUser.userId = refreshTokens[i].userId
       /\ \A p \in Procs :
             /\ (/\ req[p].pc = "idle"
                 /\ req'[p].pc = "refresh_found"
                 /\ \E i \in TokenIds :
                       /\ refreshTokens[i].token = req'[p].cookie
                       /\ refreshTokens[i].isRevoked)
                => req'[p].tokenRecord = NoTokenRow
             /\ (/\ RefreshAnswered(p)
                 /\ req[p].cookie # NoCookie
                 /\ req[p].tokenRecord = NoTokenRow)
                => /\ resp'[p].status = 401
                   /\ resp'[p].message = "Invalid or expired refresh token"
                   /\ resp'[p].accessToken = NoJwt
    ]_vars

\* after the owner's logout a refresh presents the revoked value, which has
\* not expired and whose owner is active: the query has found nothing and
\* the answer will be the 401
C11_Witness ==
    \E p \in Procs :
        /\ req[p].pc = "refresh_found"
        /\ req[p].tokenRecord = NoTokenRow
        /\ RefreshReplyOf(req[p], now).message
              = "Invalid or expired refresh token"
        /\ \E i \in TokenIds :
              /\ refreshTokens[i].token = req[p].cookie
              /\ refreshTokens[i].isRevoked
              /\ refreshTokens[i].expiresAt > now
              /\ users[refreshTokens[i].userId].isActive

\* the response of a logout: success, the refreshToken cookie cleared
IsLoggedOut(r) ==
    /\ r.status = 200
    /\ r.message = "Logged out successfully"
    /\ r.setCookie = NoCookie

\* C12: once authenticate has let a logout through, the handler ends with
\* the success response that clears the refreshToken cookie, whatever the
\* cookie is: absent (answered at once), or any value - of no row, of
\* another user's row, of a revoked or expired row - after the update.
C12_LogoutAlwaysSucceeds ==
    [][\A p \in SeqProcs :
        /\ (req[p].pc = "logout" /\ req[p].cookie = NoCookie)
           => (req'[p].pc = "idle" /\ IsLoggedOut(resp'[p]))
        /\ (req[p].pc = "logout" /\ req[p].cookie # NoCookie)
           => (req'[p].pc = "logout_revoked" /\ resp'[p] = resp[p])
        /\ req[p].pc = "logout_revoked"
           => (req'[p].pc = "idle" /\ IsLoggedOut(resp'[p]))
    ]_vars

\* a logout has succeeded although it revoked nothing: the only token row
\* there is belongs to the only user who has an access token, and it is
\* not revoked, so the cookie was absent or matched no row
C12_Witness ==
    /\ Quiet
    /\ IsLoggedOut(resp[1])
    /\ Len(refreshTokens) = 1
    /\ ~refreshTokens[1].isRevoked
    /\ \A j \in issued : j.userId = refreshTokens[1].userId

\* C13: a successful login adds one RefreshToken row, with a value no row
\* has, for the user who logged in, and leaves every earlier row as it was
\* (no other login step touches the table); a logout leaves every row whose
\* value is not the cookie's as it was, so the user's other tokens stay
\* unrevoked - also when the logins and logouts of two connections
\* interleave.
C13_TokensCoexist ==
    [][/\ \A p \in Procs :
             /\ (req[p].pc = "login_reset" /\ req'[p].pc = "login_token")
                => /\ Len(refreshTokens') = Len(refreshTokens) + 1
                   /\ SubSeq(refreshTokens', 1, Len(refreshTokens))
                         = refreshTokens
                   /\ LET row == refreshTokens'[Len(refreshTokens')]
                      IN  /\ row.userId = req[p].user.id
                          /\ ~row.isRevoked
                          /\ \A i \in TokenIds :
                                refreshTokens[i].token # row.token
             /\ (req[p].pc = "logout" /\ req'[p].pc = "logout_revoked")
                => /\ Len(refreshTokens') = Len(refreshTokens)
                   /\ \A i \in TokenIds :
                         refreshTokens[i].token # req[p].cookie
                         => refreshTokens'[i] = refreshTokens[i]
       /\ refreshTokens' # refreshTokens
          => \E p \in Procs :
                \/ req[p].pc = "login_reset" /\ req'[p].pc = "login_token"
                \/ req[p].pc = "logout" /\ req'[p].pc = "logout_revoked"
    ]_vars

\* user 1 has logged in twice and logged out with the first token: the
\* second one is not revoked and a refresh with it is answered 200
C13_Witness ==
    /\ Len(refreshTokens) = 2
    /\ refreshTokens[1].userId = 1
    /\ refreshTokens[2].userId = 1
    /\ refreshTokens[1].isRevoked
    /\ ~refreshTokens[2].isRevoked
    /\ RefreshResponse(refreshTokens[2].token, now).status = 200
    /\ \E p \in Procs : IsLoggedOut(resp[p])

\* the routes mounted behind authenticate
AuthRoutes == {"logout", "profile"} \cup FruitRoutes

\* the step in which connection p receives a request with Authorization
\* header h on a route behind authenticate: the route and the cookie are
\* those the handler gets; a rejection is the same on every route
AuthStep(p, h) ==
    /\ req[p].pc = "idle"
    /\ budget' = budget - 1
    /\ req'[p].pc \in AuthRoutes \cup {"idle"}
    /\ Authenticate(p, IF req'[p].pc = "idle" THEN "profile" ELSE req'[p].pc,
                    h, req'[p].cookie)

\* h carries a bearer token that is signed with the access secret, has not
\* expired, and names a user
CarriesGoodToken(h) ==
    /\ h.scheme = "Bearer "
    /\ h.token.sig = "accessSecret"
    /\ now \div 1000 < h.token.exp
    /\ h.token.userId \in UserIds

IsStale(r) ==
    /\ r.status = 401
    /\ r.message = "Password has been changed. Please login again"

\* C14 as stated: a correctly signed, unexpired access token whose iat is
\* earlier than its user's passwordChangedAt is rejected with StaleToken;
\* when passwordChangedAt is null no token is rejected as stale.
C14_StaleAlwaysReported ==
    [][\A p \in SeqProcs, h \in Headers :
        (AuthStep(p, h) /\ CarriesGoodToken(h))
        => LET u == users[h.token.userId]
           IN  /\ (/\ u.passwordChangedAt # NULL
                   /\ h.token.iat * 1000 < u.passwordChangedAt)
                  => (req'[p].pc = "idle" /\ IsStale(resp'[p]))
               /\ u.passwordChangedAt = NULL
                  => ~(req'[p].pc = "idle" /\ IsStale(resp'[p]))
    ]_vars

\* C14, amended: such a token is always rejected with a 401; the 401 is
\* StaleToken when its user is active, and "User not found or inactive"
\* when the user has been deactivated (the user is loaded before the
\* freshness check).  When passwordChangedAt is null no token is rejected
\* as stale.
C14_StaleRejected ==
    [][\A p \in SeqProcs, h \in Headers :
        (AuthStep(p, h) /\ CarriesGoodToken(h))
        => LET u == users[h.token.userId]
           IN  /\ (/\ u.passwordChangedAt # NULL
                   /\ h.token.iat * 1000 < u.passwordChangedAt)
                  => /\ req'[p].pc = "idle"
                     /\ resp'[p].status = 401
                     /\ IF u.isActive
                        THEN IsStale(resp'[p])
                        ELSE resp'[p].message = "User not found or inactive"
               /\ u.passwordChangedAt = NULL
                  => ~(req'[p].pc = "idle" /\ IsStale(resp'[p]))
    ]_vars

\* a request has been rejected as stale; a token issued before the
\* password change of its active user is still unexpired
C14_Witness ==
    /\ Quiet
    /\ IsStale(resp[1])
    /\ \E j \in issued :
          /\ verifyAccessToken(j, now)
          /\ users[j.userId].isActive
          /\ users[j.userId].passwordChangedAt # NULL
          /\ j.iat * 1000 < users[j.userId].passwordChangedAt

\* the rejection authenticate sends with message m: a 401, the handler is
\* not run and no user context is attached
Rejected(p, m) ==
    /\ req'[p].pc = "idle"
    /\ req'[p].authUser = NoAuth
    /\ resp'[p].status = 401
    /\ resp'[p].message = m

\* C15: authenticate attaches {userId, username, role} of the user's row and
\* calls next if and only if a bearer token is present, it verifies
\* (signature, expiry), its user exists and is active, and it is not stale;
\* otherwise it answers 401, does not call next and attaches nothing, and
\* the first failing step in that order decides the rejection.
C15_AuthenticateOrder ==
    [][\A p \in SeqProcs, h \in Headers :
        AuthStep(p, h)
        => LET present == h.scheme = "Bearer "
               verified == /\ h.token.sig = "accessSecret"
                           /\ now \div 1000 < h.token.exp
               loaded == \E i \in 1..Len(users) :
                            users[i].id = h.token.userId /\ users[i].isActive
               stale == \E i \in 1..Len(users) :
                           /\ users[i].id = h.token.userId
                           /\ users[i].passwordChangedAt # NULL
                           /\ h.token.iat * 1000 < users[i].passwordChangedAt
           IN  /\ ~present => Rejected(p, "Access token required")
               /\ (present /\ ~verified)
                  => Rejected(p, "Invalid or expired token")
               /\ (present /\ verified /\ ~loaded)
                  => Rejected(p, "User not found or inactive")
               /\ (present /\ verified /\ loaded /\ stale)
                  => Rejected(p, "Password has been changed. Please login again")
               /\ (present /\ verified /\ loaded /\ ~stale)
                  => /\ req'[p].pc \in AuthRoutes
                     /\ resp'[p] = resp[p]
                     /\ \E i \in 1..Len(users) :
                           /\ users[i].id = h.token.userId
                           /\ req'[p].authUser =
                                 [userId |-> users[i].id,
                                  username |-> users[i].username,
                                  role |-> users[i].role]
    ]_vars

\* a request whose token was issued no earlier than its user's password
\* change is in its handler with the context of the user's row
C15_Witness ==
    /\ req[1].pc \in AuthRoutes
    /\ req[1].authUser.userId \in UserIds
    /\ users[req[1].authUser.userId].passwordChangedAt # NULL
    /\ req[1].authUser.role = users[req[1].authUser.userId].role

\* C16: authenticate changes no table on any path; a rejected request
\* leaves nothing behind but its response, an accepted one nothing but the
\* user context on the request the handler receives.
C16_AuthenticateWritesNothing ==
    [][\A p \in SeqProcs, h \in Headers :
        AuthStep(p, h)
        => /\ users' = users
           /\ refreshTokens' = refreshTokens
           /\ loginLog' = loginLog
           /\ IF req'[p].pc = "idle"
              THEN req'[p] = IdleReq
              ELSE /\ resp' = resp
                   /\ req'[p].authUser # NoAuth
                   /\ req'[p] = [IdleReq EXCEPT !.pc = req'[p].pc,
                                                !.cookie = req'[p].cookie,
                                                !.authUser = req'[p].authUser]
    ]_vars

\* an accepted request is in its handler while a refresh token of its user
\* is still unrevoked
C16_Witness ==
    /\ req[1].pc \in AuthRoutes
    /\ req[1].authUser # NoAuth
    /\ \E i \in 1..Len(refreshTokens) :
          /\ refreshTokens[i].userId = req[1].authUser.userId
          /\ ~refreshTokens[i].isRevoked

\* C17: for an allow-list, authorize answers 401 when the request has no
\* user context, 403 when the context's role is not in the list, and
\* otherwise calls next once; it never both responds and calls next, and
\* the outcome depends on nothing but the context and the list, with every
\* table left as it was.
C17_AuthorizeByRole ==
    [][\A p \in Procs, roles \in AllowLists :
        Authorize(p, roles)
        => LET c == req[p].authUser
               responded == resp'[p] # resp[p] /\ req'[p].pc = "idle"
               next == req'[p].pc = "authorized" /\ resp'[p] = resp[p]
           IN  /\ c = NoAuth
                  => /\ responded
                     /\ resp'[p].status = 401
                     /\ resp'[p].message = "Authentication required"
               /\ (c # NoAuth /\ c.role \notin roles)
                  => /\ responded
                     /\ resp'[p].status = 403
                     /\ resp'[p].message = "Insufficient permissions"
               /\ (c # NoAuth /\ c.role \in roles)
                  => next /\ req'[p].authUser = c
               /\ ~(responded /\ next)
               /\ store' = store
    ]_vars

\* one request was let through as admin although its user's row says
\* "user", another was refused with 403
C17_Witness ==
    /\ req[1].pc = "authorized"
    /\ req[1].authUser.role = "admin"
    /\ users[req[1].authUser.userId].role = "user"
    /\ resp[2].status = 403
    /\ resp[2].message = "Insufficient permissions"

\* where a request is while logout, getProfile or a fruit handler runs
GuardedPcs == AuthRoutes \cup {"logout_revoked"}

\* where a request is while register, login or refreshToken runs
PublicPcs ==
    {"register_hashed", "register_created", "login_found", "login_failed",
     "login_reset", "login_token", "refresh_found"}

\* C18: logout, getProfile and every fruit handler run only on a request
\* that authenticate accepted (a signed, unexpired token of an active user)
\* and that carries the user context; register, login and refreshToken run
\* on requests with no user context, whatever tokens exist.
C18_HandlersBehindAuthenticate ==
    [][\A p \in SeqProcs :
        /\ req'[p].pc \in GuardedPcs \cup PublicPcs \cup {"idle"}
        /\ req'[p].pc \in GuardedPcs
           => /\ req'[p].authUser # NoAuth
              /\ req[p].pc = "idle"
                 => \E j \in issued :
                       /\ j.sig = "accessSecret"
                       /\ now \div 1000 < j.exp
                       /\ users[j.userId].isActive
                       /\ req'[p].authUser.userId = j.userId
              /\ req[p].pc # "idle"
                 => req[p].pc \in GuardedPcs /\ req'[p].authUser = req[p].authUser
        /\ req'[p].pc \in PublicPcs => req'[p].authUser = NoAuth
    ]_vars

\* a fruit handler is running for the user who logged in
C18_Witness ==
    /\ req[1].pc \in FruitRoutes
    /\ req[1].authUser.userId = 1
    /\ \E j \in issued : j.userId = 1

\* the step in which register, called with (username, email, password),
\* runs its existence check
RegisterStep(p, username, email, password) ==
    \/ RegisterReject(p, username, email, password)
    \/ \E ip \in IPs, a \in Agents, salt \in Salts :
          RegisterAccept(p, username, email, password, ip, a, salt)

IsConflict(r) == r.status = 409

\* C19: a registration is answered 409, and writes nothing, whenever some
\* user row has its email or its lowercased username; either alone is
\* enough.
C19_ConflictOnEmailOrUsername ==
    [][\A p \in Procs, u \in RaceUsernames, e \in RaceEmails,
          pw \in RegisterPasswords :
        (/\ RegisterStep(p, u, e, pw)
         /\ \E i \in 1..Len(users) :
               \/ users[i].email = e
               \/ users[i].username = toLowerCase(u))
        => /\ req'[p].pc = "idle"
           /\ IsConflict(resp'[p])
           /\ store' = store
    ]_vars

\* one registration was refused for a username that differs from a stored
\* one only in letter case, another for a stored email, and no row was
\* added
C19_Witness ==
    /\ IsConflict(resp[1])
    /\ resp[1].message = "Username already exists"
    /\ IsConflict(resp[2])
    /\ resp[2].message = "Email already exists"
    /\ users = SeedUsers

IsLowerCase(str) ==
    \A i \in 1..Len(str) : \A k \in 1..Len(UpperChars) : str[i] # UpperChars[k]

\* C20: no two User rows share an email, no two share a username, and
\* every stored username is lowercase, also when registrations interleave
\* between the existence check and the create.
C20_UsersUnique ==
    /\ \A i, j \in 1..Len(users) :
          i # j => /\ users[i].email # users[j].email
                   /\ users[i].username # users[j].username
    /\ \A i \in 1..Len(users) : IsLowerCase(users[i].username)

\* two registrations passed the existence check, the first created its
\* row and the second was refused at the create
C20_Witness ==
    /\ Len(users) = Len(SeedUsers) + 1
    /\ \E p \in Procs :
          /\ resp[p].status = 500
          /\ req[p].pc = "idle"
    /\ \E p \in Procs : req[p].pc = "register_created"

\* C21: when a registration collides on both fields (its email is used and
\* its lowercased username is used, by one row or by two), the 409 says
\* "Email already exists", never "Username already exists".
C21_EmailTakesPrecedence ==
    [][\A p \in Procs, u \in RaceUsernames, e \in RaceEmails,
          pw \in RegisterPasswords :
        (/\ RegisterStep(p, u, e, pw)
         /\ \E i \in 1..Len(users) : users[i].email = e
         /\ \E j \in 1..Len(users) : users[j].username = toLowerCase(u))
        => /\ IsConflict(resp'[p])
           /\ resp'[p].message = "Email already exists"
    ]_vars

IsWeakPassword(r) ==
    /\ r.status = 400
    /\ r.message = "Password does not meet security requirements"

\* C22: register looks for a conflict before it looks at the password; a
\* registration answered 409 or 400 writes no row; a successful one
\* appends one User row (username lowercased, password hashed) in its
\* create step and one LoginLog row with success = true in its log step,
\* no other step of register writes, and the data of the 201 response
\* holds no password.
C22_RegisterEffects ==
    [][/\ \A p \in Procs, u \in RaceUsernames, e \in RaceEmails,
            pw \in RegisterPasswords :
          RegisterStep(p, u, e, pw)
          => /\ store' = store
             /\ (\E i \in 1..Len(users) :
                    users[i].email = e \/ users[i].username = toLowerCase(u))
                => IsConflict(resp'[p]) /\ req'[p].pc = "idle"
             /\ IsWeakPassword(resp'[p]) /\ req'[p].pc = "idle"
                => /\ Len(PasswordErrors(pw)) > 0
                   /\ \A i \in 1..Len(users) :
                         /\ users[i].email # e
                         /\ users[i].username # toLowerCase(u)
             /\ req'[p].pc = "register_hashed"
                => /\ req'[p].username = toLowerCase(u)
                   /\ req'[p].email = e
                   /\ req'[p].password = pw
       /\ \A p \in Procs :
          /\ (req[p].pc = "register_hashed" /\ req'[p].pc = "register_created")
             => /\ Len(users') = Len(users) + 1
                /\ SubSeq(users', 1, Len(users)) = users
                /\ users'[Len(users')].username = req[p].username
                /\ IsLowerCase(users'[Len(users')].username)
                /\ users'[Len(users')].email = req[p].email
                /\ users'[Len(users')].password # req[p].password
                /\ comparePassword(req[p].password, users'[Len(users')].password)
                /\ req'[p].user.id = Len(users')
                /\ req'[p].user.password = << >>
                /\ loginLog' = loginLog
          /\ (req[p].pc = "register_hashed" /\ req'[p].pc = "idle")
             => store' = store /\ resp'[p].status = 500
          /\ (req[p].pc = "register_created" /\ req'[p].pc = "idle")
             => /\ users' = users
                /\ Len(loginLog') = Len(loginLog) + 1
                /\ SubSeq(loginLog', 1, Len(loginLog)) = loginLog
                /\ loginLog'[Len(loginLog')].success
                /\ loginLog'[Len(loginLog')].userId = req[p].user.id
                /\ resp'[p].status = 201
                /\ resp'[p].userId = req[p].user.id
                /\ req[p].user.password = << >>
       /\ users' # users
          => \E p \in Procs : /\ req[p].pc = "register_hashed"
                              /\ req'[p].pc = "register_created"
       /\ loginLog' # loginLog
          => \E p \in Procs : /\ req[p].pc = "register_created"
                              /\ req'[p].pc = "idle"
    ]_vars

\* one registration succeeded with one new row and one log row, another
\* was refused for its password
C22_Witness ==
    /\ resp[1].status = 201
    /\ IsWeakPassword(resp[2])
    /\ Len(users) = Len(SeedUsers) + 1
    /\ Len(loginLog) = 1
    /\ loginLog[1].success
    /\ Quiet

\* C23: a store call that throws during register, login, refresh, logout,
\* getProfile or the user lookup of authenticate is answered with the
\* generic 500, never with another error.
C23_StoreFailureIsInternal ==
    [][\A p \in SeqProcs :
        StoreFault(p)
        => /\ resp'[p].status = 500
           /\ resp'[p].message = "Internal server error"
    ]_vars

\* the rules of validatePasswordStrength: whether pw violates the rule, and
\* the message of the rule
StrengthRules(pw) ==
    {<<Len(pw) <= 7, "Password must be at least 8 characters long">>,
     <<\A i \in 1..Len(pw) : \A k \in 1..26 : pw[i] # UpperChars[k],
       "Password must contain at least one uppercase letter">>,
     <<\A i \in 1..Len(pw) : \A k \in 1..26 : pw[i] # LowerChars[k],
       "Password must contain at least one lowercase letter">>,
     <<\A i \in 1..Len(pw) : pw[i] \notin DigitChars,
       "Password must contain at least one number">>,
     <<\A i \in 1..Len(pw) : pw[i] \notin SpecialChars,
       "Password must contain at least one special character">>,
     <<\E k \in 1..Len(commonPasswords) : commonPasswords[k] = toLowerCase(pw),
       "Password is too common. Please choose a more secure password">>}

\* C24: validatePasswordStrength returns one message for every violated
\* rule and none for a satisfied one, whatever else is violated, and valid
\* is true exactly when there is no message.
C24_AllViolationsReported ==
    \A p \in SeqProcs :
        req[p].pc = "strength_done"
        => LET rules == StrengthRules(req[p].password)
               errors == resp[p].errors
           IN  /\ \A r \in rules :
                     r[1] <=> \E i \in 1..Len(errors) : errors[i] = r[2]
               /\ \A i \in 1..Len(errors) :
                     \E r \in rules : r[1] /\ r[2] = errors[i]
               /\ Len(errors) = Cardinality({r \in rules : r[1]})
               /\ resp[p].valid <=> Len(errors) = 0

\* a password that is too short, has no uppercase letter and no symbol has
\* been checked and three messages came back
C24_Witness ==
    /\ GoodPassword \in StrengthInputs
    /\ validatePasswordStrength(GoodPassword).valid
    /\ req[1].pc = "strength_done"
    /\ req[1].password = <<"b", "1">>
    /\ Len(resp[1].errors) = 3
    /\ ~resp[1].valid

IsLoggedIn(r, userId) ==
    /\ r.status = 200
    /\ r.message = "Login successful"
    /\ r.userId = userId

\* C25: the password a registration stores differs from the plaintext and
\* comparePassword(plaintext, stored) is true; and a login with the email
\* of a row and a password comparePassword accepts for it, the user
\* active and not locked, goes through to the 200 response.
C25_RegisteredPasswordVerifies ==
    [][\A p \in SeqProcs :
        /\ (req[p].pc = "register_hashed" /\ req'[p].pc = "register_created")
           => LET stored == users'[Len(users')].password
              IN  /\ Len(users') = Len(users) + 1
                  /\ users'[Len(users')].email = req[p].email
                  /\ stored # req[p].password
                  /\ comparePassword(req[p].password, stored)
        /\ (/\ req[p].pc = "login_found"
            /\ \E i \in 1..Len(users) :
                  /\ users[i].email = req[p].email
                  /\ comparePassword(req[p].password, users[i].password)
                  /\ users[i].isActive
                  /\ users[i].lockoutUntil = NULL \/ users[i].lockoutUntil <= now)
           => req'[p].pc = "login_reset"
        /\ req[p].pc = "login_reset" => req'[p].pc = "login_token"
        /\ req[p].pc = "login_token"
           => /\ req'[p].pc = "idle"
              /\ \E i \in 1..Len(users) :
                    /\ users[i].email = req[p].email
                    /\ IsLoggedIn(resp'[p], users[i].id)
    ]_vars

\* the user who registered has logged in
C25_Witness ==
    /\ Len(users) = Len(SeedUsers) + 1
    /\ IsLoggedIn(resp[1], Len(users))
    /\ \E i \in 1..Len(loginLog) :
          /\ loginLog[i].userId = Len(users)
          /\ loginLog[i].reason = <<"User registration">>

SevenDays == 7 * 24 * 60 * 60 * 1000

\* C26: a successful login appends one RefreshToken row, of the user who
\* logged in, unrevoked, expiring 7 days after its creation, with a token
\* no other row has, and the cookie of the 200 response is that token; no
\* other step of login writes the RefreshToken table, and no other
\* response of login sets the cookie.
C26_LoginIssuesOneToken ==
    [][\A p \in SeqProcs :
        /\ (req[p].pc = "login_reset" /\ req'[p].pc = "login_token")
           => LET row == refreshTokens'[Len(refreshTokens')]
              IN  /\ Len(refreshTokens') = Len(refreshTokens) + 1
                  /\ SubSeq(refreshTokens', 1, Len(refreshTokens)) = refreshTokens
                  /\ row.userId = req[p].user.id
                  /\ ~row.isRevoked
                  /\ row.expiresAt = now + SevenDays
                  /\ \A i \in 1..Len(refreshTokens) :
                        refreshTokens[i].token # row.token
                  /\ req'[p].refreshToken = row.token
        /\ (req[p].pc = "login_token" /\ req'[p].pc = "idle")
           => /\ refreshTokens' = refreshTokens
              /\ resp'[p].status = 200
              /\ resp'[p].setCookie = refreshTokens[Len(refreshTokens)].token
              /\ refreshTokens[Len(refreshTokens)].userId = resp'[p].userId
        /\ (req[p].pc \in {"login_found", "login_failed"} /\ req'[p].pc = "idle")
           => /\ resp'[p].status # 200
              /\ resp'[p].setCookie = NULL
        /\ refreshTokens' # refreshTokens
           => req[p].pc = "login_reset" /\ req'[p].pc = "login_token"
    ]_vars

\* a login has failed without a cookie after another had succeeded with
\* the cookie of the one row there is
C26_Witness ==
    /\ Len(refreshTokens) = 1
    /\ resp[1].status = 401
    /\ resp[1].setCookie = NULL
    /\ \E i \in 1..Len(loginLog) : loginLog[i].success
    /\ ~refreshTokens[1].isRevoked
    /\ refreshTokens[1].expiresAt >= SevenDays
    /\ Quiet

\* C27: the LoginLog only grows by appending: after every step of
\* register, login, refresh, logout, getProfile and authenticate the log
\* before the step is a prefix of the log after it.
C27_LogAppendOnly ==
    [][/\ Len(loginLog') >= Len(loginLog)
       /\ \A i \in 1..Len(loginLog) : loginLog'[i] = loginLog[i]
    ]_vars

\* the log holds the row of a registration followed by the row of a login
C27_Witness ==
    /\ Len(loginLog) = 2
    /\ loginLog[1].reason = <<"User registration">>
    /\ loginLog[2].reason # <<"User registration">>
    /\ Quiet

\* the number of wrong-password comparisons logged for user id since that
\* user's last successful login
GuessesSinceSuccess(log, id) ==
    LET rows == RowsOf(log, id)
        last == IF \E i \in 1..Len(rows) : rows[i].reason = <<"Successful login">>
                THEN CHOOSE i \in 1..Len(rows) :
                        /\ rows[i].reason = <<"Successful login">>
                        /\ \A j \in (i + 1)..Len(rows) :
                              rows[j].reason # <<"Successful login">>
                ELSE 0
    IN  Cardinality({j \in (last + 1)..Len(rows) :
                        rows[j].reason[1] = "Invalid password (attempt "})

\* C28 as stated: however the logins for one user interleave, at most 5
\* wrong-password comparisons are made for that user between a successful
\* login and the lockout (before any lockout has run out).
C28_AtMostThresholdGuesses ==
    now < LOCKOUT_MS
    => \A id \in UserIds :
          GuessesSinceSuccess(loginLog, id) <= LOCKOUT_THRESHOLD

\* C28, amended: before any lockout has run out, every wrong-password
\* comparison is made by a request that read the user unlocked with a count
\* below 5, writes that count plus 1 (with the lockout when that is 5) and
\* is logged with an attempt number from 1 to 5.  That bounds the
\* comparisons by 5 only when no two requests read the same count: logins
\* that read the row before the lockout was written all compare.
C28_GuessesReadBelowThreshold ==
    [][now < LOCKOUT_MS
       => \A p \in Procs :
            /\ (req[p].pc = "login_found" /\ req'[p].pc = "login_failed")
               => LET id == req[p].user.id
                  IN  /\ req[p].user.lockoutUntil = NULL
                      /\ req[p].user.failedLoginAttempts < 5
                      /\ users'[id].failedLoginAttempts
                            = req[p].user.failedLoginAttempts + 1
                      /\ users'[id].lockoutUntil =
                            IF req[p].user.failedLoginAttempts + 1 = 5
                            THEN now + LOCKOUT_MS ELSE NULL
            /\ (req[p].pc = "login_failed" /\ req'[p].pc = "idle")
               => /\ Len(loginLog') = Len(loginLog) + 1
                  /\ \E n \in 1..5 :
                        loginLog'[Len(loginLog')].reason = InvalidPassword(n)
    ]_vars

\* two logins that both read a count of 4 have both compared: six wrong
\* passwords are logged for the user, who is locked with a count of 5
C28_Witness ==
    /\ now < LOCKOUT_MS
    /\ GuessesSinceSuccess(loginLog, 1) = LOCKOUT_THRESHOLD + 1
    /\ users[1].failedLoginAttempts = LOCKOUT_THRESHOLD
    /\ users[1].lockoutUntil # NULL
    /\ Quiet

\* user id is as a successful login left it: counter 0, no lockout
IsReset(table, id) ==
    /\ table[id].lastLoginAt # NULL
    /\ table[id].failedLoginAttempts = 0
    /\ table[id].lockoutUntil = NULL

\* C29 as stated: once a successful login has committed its reset, the
\* user stays unlocked with counter 0 until a login that read the row
\* after the commit fails (and makes the counter 1); a failed login that
\* read the row before the commit does not overwrite the reset with a
\* stale count or a lockout.
C29_ResetNotOverwritten ==
    [][\A id \in UserIds :
        (/\ IsReset(users, id)
         /\ ~IsReset(users', id))
        => /\ users'[id].failedLoginAttempts = 1
           /\ users'[id].lockoutUntil = NULL
    ]_vars

\* C29, amended: once a successful login has committed its reset, the user
\* stays unlocked with counter 0 until some login fails its password
\* comparison and writes; the write is the count that request read plus 1,
\* with a lockout when that is 5 or more.  A request that read the row
\* after the commit writes 1 and no lockout; one that read it before the
\* commit overwrites the reset with its stale count and lockout.
C29_ResetOverwrittenByStaleWrite ==
    [][\A id \in UserIds :
        (/\ IsReset(users, id)
         /\ ~IsReset(users', id))
        => \E p \in Procs :
              /\ req[p].pc = "login_found"
              /\ req'[p].pc = "login_failed"
              /\ req[p].user.id = id
              /\ users'[id].failedLoginAttempts
                    = req[p].user.failedLoginAttempts + 1
              /\ users'[id].lockoutUntil =
                    IF req[p].user.failedLoginAttempts + 1 >= 5
                    THEN now + LOCKOUT_MS ELSE NULL
              /\ IsReset([users EXCEPT ![id] = req[p].user], id)
                 => /\ users'[id].failedLoginAttempts = 1
                    /\ users'[id].lockoutUntil = NULL
    ]_vars

\* a login that read a count of 4 before another login succeeded has
\* failed after it: the user is locked with a count of 5 right after the
\* successful login
C29_Witness ==
    /\ users[1].lastLoginAt # NULL
    /\ users[1].failedLoginAttempts = LOCKOUT_THRESHOLD
    /\ users[1].lockoutUntil # NULL
    /\ \E i \in 1..Len(loginLog) :
          /\ i < Len(loginLog)
          /\ loginLog[i].reason = <<"Successful login">>
          /\ loginLog[i].userId = 1
          /\ loginLog[Len(loginLog)].reason = InvalidPassword(LOCKOUT_THRESHOLD)
          /\ loginLog[Len(loginLog)].userId = 1

\* every refresh token of user id is revoked: the user has logged out of
\* every session
AllRevoked(id) ==
    /\ \E i \in 1..Len(refreshTokens) : refreshTokens[i].userId = id
    /\ \A i \in 1..Len(refreshTokens) :
          refreshTokens[i].userId = id => refreshTokens[i].isRevoked

\* C30: the steps of logout change only the RefreshToken table (isRevoked
\* of rows of the caller) and nothing authenticate reads; an access token
\* of a user who has logged out is accepted by authenticate as long as it
\* has not expired, the user is active and the password was not changed
\* after it was issued.
C30_LogoutKeepsAccessToken ==
    [][\A p \in SeqProcs :
        /\ req[p].pc \in {"logout", "logout_revoked"}
           => /\ users' = users
              /\ loginLog' = loginLog
              /\ issued' = issued
              /\ now' = now
              /\ Len(refreshTokens') = Len(refreshTokens)
              /\ \A i \in 1..Len(refreshTokens) :
                    refreshTokens'[i] # refreshTokens[i]
                    => /\ refreshTokens[i].userId = req[p].authUser.userId
                       /\ refreshTokens'[i] =
                             [refreshTokens[i] EXCEPT !.isRevoked = TRUE]
        /\ \A h \in Headers :
              (/\ AuthStep(p, h)
               /\ CarriesGoodToken(h)
               /\ AllRevoked(h.token.userId)
               /\ users[h.token.userId].isActive
               /\ \/ users[h.token.userId].passwordChangedAt = NULL
                  \/ h.token.iat * 1000 >= users[h.token.userId].passwordChangedAt)
              => /\ req'[p].pc \in AuthRoutes
                 /\ req'[p].authUser.userId = h.token.userId
    ]_vars

\* the user has logged out, the refresh token is revoked, and a later
\* request with the access token is in its handler
C30_Witness ==
    /\ AllRevoked(1)
    /\ req[1].pc = "profile"
    /\ req[1].authUser.userId = 1

\* C31: the username and role authenticate attaches are those of the user
\* row at the time of the request, whatever the payload of the token says;
\* the guard then lets the request through exactly when the role of the
\* row is in the allow-list, so a token issued before a role change is
\* authorized against the new role.
C31_ContextFromStore ==
    [][\A p \in SeqProcs :
        /\ (req[p].pc = "idle" /\ req'[p].pc = "authorize")
           => \E j \in issued :
                 /\ j.userId = req'[p].authUser.userId
                 /\ req'[p].authUser.username = users[j.userId].username
                 /\ req'[p].authUser.role = users[j.userId].role
        /\ \A roles \in AllowLists :
              (Authorize(p, roles) /\ req[p].authUser # NoAuth)
              => LET row == users[req[p].authUser.userId]
                 IN  IF row.role \in roles
                     THEN req'[p].pc = "authorized" /\ resp'[p] = resp[p]
                     ELSE /\ req'[p].pc = "idle"
                          /\ resp'[p].status = 403
    ]_vars

\* a request whose only token says "user" was let through a guard for the
\* role the row has now
C31_Witness ==
    /\ req[1].pc = "authorized"
    /\ req[1].authUser.role = "admin"
    /\ users[req[1].authUser.userId].role = "admin"
    /\ issued # {}
    /\ \A j \in issued : j.role = "user"

\* what a wrong password does, for the connection p whose login has just
\* compared: the count is the count read plus 1; a count read at 5 or more
\* means the lockout read has elapsed, and a new one of 30 minutes from now
\* is set at once; the lockout is cleared exactly when the new count is
\* below 5
RelockStep(p) ==
    LET r == req[p]
        id == r.user.id
    IN  /\ users'[id].failedLoginAttempts = r.user.failedLoginAttempts + 1
        /\ r.user.failedLoginAttempts >= LOCKOUT_THRESHOLD
           => /\ r.user.lockoutUntil # NULL
              /\ r.user.lockoutUntil <= now
              /\ users'[id].lockoutUntil = now + LOCKOUT_MS
        /\ users'[id].lockoutUntil = NULL
           <=> r.user.failedLoginAttempts + 1 < LOCKOUT_THRESHOLD

\* C32 as stated: the passing of time leaves the counter as it is, so a
\* wrong password after a lockout has elapsed raises the count from 5 to 6
\* and at once sets lockoutUntil to 30 minutes from now; a failed login
\* clears the lockout only while the new count is below 5, and so only for
\* one of the first four wrong passwords since the user's last successful
\* login (or since the account was created).
C32_ClearOnlyForFirstFour ==
    [][/\ now' # now => users' = users
       /\ \A p \in Procs :
            (req[p].pc = "login_found" /\ req'[p].pc = "login_failed")
            => /\ RelockStep(p)
               /\ users'[req[p].user.id].lockoutUntil = NULL
                  => GuessesSinceSuccess(loginLog, req[p].user.id)
                        < LOCKOUT_THRESHOLD - 1
    ]_vars

\* C32, amended: the same, except that the failures for which the lockout
\* is cleared are the first four since the last successful login only for
\* a request whose count read is the number of wrong passwords logged since
\* then, as it is when the logins of the user run one after the other; a
\* login that read the row while another one was failing clears the
\* lockout for a later failure too.
C32_RelockAfterElapsedLockout ==
    [][/\ now' # now => users' = users
       /\ \A p \in Procs :
            (req[p].pc = "login_found" /\ req'[p].pc = "login_failed")
            => /\ RelockStep(p)
               /\ (/\ users'[req[p].user.id].lockoutUntil = NULL
                   /\ req[p].user.failedLoginAttempts
                         = GuessesSinceSuccess(loginLog, req[p].user.id))
                  => GuessesSinceSuccess(loginLog, req[p].user.id)
                        < LOCKOUT_THRESHOLD - 1
    ]_vars

\* the sixth wrong password, made after the lockout of the fifth had
\* elapsed, has locked the account again
C32_Witness ==
    /\ \E p \in Procs : req[p].pc = "login_failed" /\ req[p].user.id = 1
    /\ now >= LOCKOUT_MS
    /\ users[1].failedLoginAttempts = LOCKOUT_THRESHOLD + 1
    /\ users[1].lockoutUntil = now + LOCKOUT_MS

\* C33 as stated: an access token that a login hands out at a time at or
\* after the passwordChangedAt of its user is not rejected by authenticate
\* as issued before the password change.
C33_FreshTokenNeverStale ==
    [][\A p \in SeqProcs :
        (req[p].pc = "login_token" /\ resp'[p].accessToken # NoJwt)
        => LET token == resp'[p].accessToken
               row == users[token.userId]
           IN  (row.passwordChangedAt # NULL /\ row.passwordChangedAt <= now)
               => ~IsStale(AuthResult([scheme |-> "Bearer ", token |-> token],
                                      now).res)
    ]_vars

====
